---- MODULE Spec2Model ----
(***************************************************************************)
(* Playout state machine and switcher synchronisation of app.js.           *)
(*                                                                         *)
(* The Node.js process is single threaded: a handler runs without          *)
(* preemption from the arrival of one engine response to the issue of the  *)
(* next engine call.  Each action below is therefore one engine call (its  *)
(* effect on the engine and its outcome) together with the continuation of *)
(* the handler up to its next await.  Handlers in flight live in request   *)
(* slots and interleave at these points.                                   *)
(*                                                                         *)
(* Strings that the code inspects (file paths, the media root) are tuples  *)
(* of one-character strings.  Date.now() is abstracted to the marker NOW.  *)
(***************************************************************************)
EXTENDS Integers, Sequences, FiniteSets, TLC

\* ------------------------------------------------------------ bounds
MaxInFlight == 2
MaxObservers == 2

Slots == 1..MaxInFlight
Observers == 1..MaxObservers

\* ------------------------------------------------------------ values
NULL == "null"
NOW == "now"
CURRENT_SCENE == "CURRENT_SCENE"

\* CONFIG.OBS_VIDEO_INPUT / CONFIG.OBS_IMAGE_INPUT
OBS_VIDEO_INPUT == "PlayerVideo"
OBS_IMAGE_INPUT == "PlayerImage"
Sources == {OBS_VIDEO_INPUT, OBS_IMAGE_INPUT}

\* Scenes of the engine, in the order GetSceneList reports them.
SceneList == <<"Scene", "Live">>
Scenes == {SceneList[i] : i \in 1..Len(SceneList)}

\* Values an operator can configure as target scene.
TargetChoices == {"Scene", "Live", CURRENT_SCENE}

\* CONFIG.OBS_TARGET_SCENE at start-up
DefaultTargetScene == "Scene"

\* Media roots and request paths.
DefaultMediaDir == <<"/", "m">>

\* CONFIG.OBS_URL and CONFIG.OBS_PASSWORD at start-up, and what a settings
\* update can set them to.
DefaultUrl == "ws://127.0.0.1:4455"
DefaultPassword == "CHANGE_ME"
UrlChoices == {DefaultUrl, "ws://other:4455"}
PasswordChoices == {DefaultPassword, "secret"}
MediaDirChoices == {<<"/", "m">>, <<"/", "v">>}
FilePaths == { <<"/", "m", "/", "a">>,
               <<"/", "m", "x">>,
               <<"/", "v", "/", "b">>,
               <<>> }

\* ------------------------------------------------------------ pure functions
\* String.prototype.startsWith
StartsWith(s, p) == Len(p) <= Len(s) /\ SubSeq(s, 1, Len(p)) = p

\* path.basename (posix): trailing separators dropped, then the last segment
LastWhere(s, sep) ==
  LET hits == {i \in 1..Len(s) : (s[i] = "/") = sep}
  IN IF hits = {} THEN 0 ELSE CHOOSE i \in hits : \A j \in hits : j <= i

Basename(p) ==
  LET t == SubSeq(p, 1, LastWhere(p, FALSE))
  IN SubSeq(t, LastWhere(t, TRUE) + 1, Len(t))

\* A nullable number is <<>> (null) or <<n>>; a nullable text is NullText or
\* a tuple of characters.
NullNumber == <<>>
NullText == <<"null">>

\* formatDuration: null for a falsy value, else <<minutes, seconds>> or
\* <<hours, minutes, seconds>>
FormatDuration(duration) ==
  IF duration = NullNumber \/ duration = <<0>> THEN NullNumber
  ELSE LET seconds == duration[1]
           hours == seconds \div 3600
           minutes == (seconds % 3600) \div 60
           secs == seconds % 60
       IN IF hours > 0 THEN <<hours, minutes, secs>> ELSE <<minutes, secs>>

\* What ffprobe (or the duration cache) reports for a file, when it answers.
ProbedSeconds(p) == 60 + Len(p)

\* ------------------------------------------------------------ state
VARIABLES
  obsConnected,         \* let obsConnected
  currentPlayingMedia,  \* let currentPlayingMedia
  CONFIG,               \* the mutable CONFIG object: MEDIA_DIR, OBS_TARGET_SCENE
  req,                  \* the HTTP requests in flight, one per slot
  lastEmit,             \* the most recent io.emit: [event, media, connected]
  sock,                 \* the socket of obs: "closed", "connecting", "open",
                        \* "identified" (obs.call works) or "closing"
  inputs,               \* engine: the inputs that exist
  items,                \* engine: items[scene][source] = enabled flags of the scene items
  programScene,         \* engine: the current program scene
  lastEngineDone,       \* the slot whose transition last finished its engine calls
  observers,            \* the socket.io clients: what each has received last
  conn,                 \* the POST /obs/connect request being served
  ctl,                  \* the disconnect or settings request being served
  poll,                 \* broadcastVideoProgress: the run started by the last tick
  progress              \* the most recent io.emit('videoProgress', ..)

vars == <<obsConnected, currentPlayingMedia, CONFIG, req, lastEmit, sock,
          inputs, items, programScene, lastEngineDone,
          observers, conn, ctl, poll, progress>>

\* What the playout handlers never touch.
ctlVars == <<conn, ctl, poll, progress>>

engineVars == <<inputs, items, programScene>>

NoMedia ==
  [type |-> NULL, filePath |-> NullText, filename |-> NullText,
   startTime |-> NULL, duration |-> NullNumber]

\* res.status(..).json({ok, error}); NoResp while the request is in flight
Reply(status, ok, error) == [status |-> status, ok |-> ok, error |-> error]
NoResp == Reply("none", FALSE, NULL)

\* A request slot.  Beside the handler's position (pc, phase) and locals
\* (scene) it notes what has happened in it: called (an engine call was
\* issued), failed (one was rejected), committed, probed (GetInputSettings of
\* the running ensure*Source answered) and fellBack (getCurrentScene of the
\* running helper took its catch block).
IdleReq ==
  [kind |-> "none", filePath |-> <<>>, pc |-> "idle", phase |-> "none",
   scene |-> NULL, resp |-> NoResp, called |-> FALSE, failed |-> FALSE,
   committed |-> FALSE, probed |-> FALSE, fellBack |-> FALSE]

NoEmit == [event |-> "none", media |-> NoMedia, connected |-> FALSE]

\* A socket.io client that is not connected has received nothing: status and
\* playing are <<>>, else the one-element tuple of the last payload.
\* inbox: the events of the last delivery to the client, in order; refreshed:
\* that delivery answered its requestStatus.
NoObserver ==
  [joined |-> FALSE, status |-> <<>>, playing |-> <<>>, inbox |-> <<>>,
   refreshed |-> FALSE]

\* A new delivery to the client begins.
Delivery(view, asked) == [view EXCEPT !.inbox = <<>>, !.refreshed = asked]

\* The client-side effect of one message: the payload replaces the last one.
Receive(view, msg) ==
  CASE msg.event = "obsStatus" ->
         [view EXCEPT !.status = <<msg.connected>>,
                      !.inbox = Append(@, msg.event)]
    [] msg.event = "currentPlaying" ->
         [view EXCEPT !.playing = <<msg.media>>,
                      !.inbox = Append(@, msg.event)]
    [] OTHER -> view

\* io.emit(event, payload): every connected client receives the message
Broadcast(msg) ==
  observers' = [o \in Observers |->
                  IF observers[o].joined
                    THEN Receive(Delivery(observers[o], FALSE), msg)
                  ELSE observers[o]]

\* No POST /obs/connect is being served; called: it has called obs.connect.
NoConn == [pc |-> "idle", resp |-> NoResp, called |-> FALSE]

\* No disconnect, settings or scene request is being served; called: it has
\* called obs.disconnect or the engine; changed: a settings request replaced
\* CONFIG.OBS_URL or CONFIG.OBS_PASSWORD by another value while obsConnected
\* was true, a scene request replaced CONFIG.OBS_TARGET_SCENE by another value.
NoCtl == [kind |-> "none", pc |-> "idle", resp |-> NoResp, called |-> FALSE,
          changed |-> FALSE]

\* No videoProgress sample was emitted yet.
NoSample == [mediaState |-> "none", mediaDuration |-> 0, mediaCursor |-> 0,
             playing |-> FALSE]

\* broadcastVideoProgress is not running.  Of the run the last tick started:
\* live, it passed the guard of line 151; pushed, the number of samples it
\* emitted; origin, where its sample came from.
NoPoll == [pc |-> "idle", live |-> FALSE, pushed |-> 0, origin |-> "none"]

\* The engine as found: each managed source absent, present in no scene, or
\* present with one enabled item in the scene the configuration targets.
SourceShapes == {"absent", "unattached", "attached"}

InitItems(shape, target) ==
  [s \in Scenes |-> [x \in Sources |->
     IF s = target /\ shape[x] = "attached" THEN <<TRUE>> ELSE <<>>]]

\* The scene the helpers work in when they resolve it now.
TargetScene ==
  IF CONFIG.OBS_TARGET_SCENE = CURRENT_SCENE THEN programScene
  ELSE CONFIG.OBS_TARGET_SCENE

Init ==
  /\ obsConnected = FALSE
  /\ currentPlayingMedia = NoMedia
  /\ \E md \in MediaDirChoices, ts \in TargetChoices :
       CONFIG = [MEDIA_DIR |-> md, OBS_TARGET_SCENE |-> ts,
                 OBS_URL |-> DefaultUrl, OBS_PASSWORD |-> DefaultPassword]
  /\ req = [r \in Slots |-> IdleReq]
  /\ lastEmit = NoEmit
  /\ sock = "closed"
  /\ programScene \in Scenes
  /\ lastEngineDone = 0
  /\ observers = [o \in Observers |-> NoObserver]
  /\ conn = NoConn
  /\ ctl = NoCtl
  /\ poll = NoPoll
  /\ progress = NoSample
  /\ \E shape \in [Sources -> SourceShapes] :
       /\ inputs = {x \in Sources : shape[x] # "absent"}
       /\ items = InitItems(shape, TargetScene)

\* ------------------------------------------------------------ control flow
\* The continuation of a handler between two awaits, as a function of the
\* request record.  CONFIG is read where the code reads it: at that moment.

InFlight(r) == req[r].pc \notin {"idle", "done"}

\* return res.status(..).json(..)
Respond(rec, reply) ==
  [rec EXCEPT !.pc = "done", !.resp = reply, !.phase = "none", !.scene = NULL,
              !.probed = FALSE, !.fellBack = FALSE]

\* A slip: the catch of the route handler logs and sends no response.
ThrowUnanswered(rec) ==
  [rec EXCEPT !.pc = "caught", !.phase = "none", !.scene = NULL,
              !.probed = FALSE, !.fellBack = FALSE]

\* the catch of the route handler (lines 706-709, 763-765, 789-791, 1045-1047)
Throw(rec) == Respond(rec, Reply("500", FALSE, "e.message"))

\* The source the handler shows, and the one it hides first.
OwnSource(kind) == IF kind = "video" THEN OBS_VIDEO_INPUT ELSE OBS_IMAGE_INPUT
OtherSource(kind) == IF kind = "video" THEN OBS_IMAGE_INPUT ELSE OBS_VIDEO_INPUT

\* The sourceName / inputName argument at the handler's position.
Src(rec) ==
  CASE rec.phase = "hide2" -> OBS_IMAGE_INPUT
    [] rec.phase = "hide" ->
         IF rec.kind = "stop" THEN OBS_VIDEO_INPUT ELSE OtherSource(rec.kind)
    [] OTHER -> OwnSource(rec.kind)

\* getCurrentScene returned sceneName to the helper that called it
GcsReturn(rec, sceneName) ==
  [rec EXCEPT !.scene = sceneName,
              !.pc = CASE rec.phase = "ensure" -> "ens_list"
                       [] rec.phase = "ensure_catch" -> "ens_create"
                       [] rec.phase \in {"hide", "hide2", "show"} -> "vis_list"
                       [] OTHER -> "fit_video"]

\* A slip: the scene a helper of the request resolved is kept for the next.
ResolveOnce(rec, phase) ==
  LET at == [rec EXCEPT !.phase = phase, !.fellBack = FALSE,
                        !.probed = @ /\ phase \in {"ensure", "ensure_catch"}]
  IN IF CONFIG.OBS_TARGET_SCENE # CURRENT_SCENE
       THEN GcsReturn(at, CONFIG.OBS_TARGET_SCENE)
     ELSE IF rec.scene = NULL THEN [at EXCEPT !.pc = "gcs_prog"]
     ELSE GcsReturn(at, rec.scene)

\* CONFIG.OBS_TARGET_SCENE === 'CURRENT_SCENE' ? await getCurrentScene()
\*                                             : (CONFIG.OBS_TARGET_SCENE || ...)
Resolve(rec, phase) ==
  LET at == [rec EXCEPT !.phase = phase, !.scene = NULL, !.fellBack = FALSE,
                        !.probed = @ /\ phase \in {"ensure", "ensure_catch"}]
  IN IF CONFIG.OBS_TARGET_SCENE = CURRENT_SCENE
       THEN [at EXCEPT !.pc = "gcs_prog"]
       ELSE GcsReturn(at, CONFIG.OBS_TARGET_SCENE)

\* ensureVideoSource / ensureImageSource entered: GetInputSettings comes first
EnterEnsure(rec) ==
  [rec EXCEPT !.phase = "ensure", !.scene = NULL, !.pc = "ens_get"]

\* A slip: the own source is shown first and the other one hidden after it.
AfterHelperShowFirst(rec) ==
  CASE rec.kind = "stop" /\ rec.phase = "hide" ->
         Resolve(rec, "hide2")
    [] rec.kind = "stop" ->
         [rec EXCEPT !.fellBack = FALSE, !.pc = "commit"]
    [] rec.phase \in {"ensure", "ensure_catch"} ->
         Resolve(rec, "show")
    [] rec.phase = "show" ->
         Resolve(rec, "hide")
    [] rec.phase = "hide" ->
         [rec EXCEPT !.scene = NULL, !.fellBack = FALSE,
                     !.pc = IF rec.kind = "video" THEN "media_stop" ELSE "settings"]
    [] OTHER ->
         [rec EXCEPT !.fellBack = FALSE,
                     !.pc = IF rec.kind = "video" THEN "duration" ELSE "commit"]

\* What the route handler does once the helper it awaited has returned.
AfterHelper(rec) ==
  CASE rec.kind = "stop" /\ rec.phase = "hide" ->
         Resolve(rec, "hide2")
    [] rec.kind = "stop" ->
         [rec EXCEPT !.fellBack = FALSE, !.pc = "commit"]
    [] rec.phase \in {"ensure", "ensure_catch"} ->
         Resolve(rec, "hide")
    [] rec.phase = "hide" ->
         Resolve(rec, "show")
    [] rec.phase = "show" ->
         [rec EXCEPT !.scene = NULL, !.fellBack = FALSE,
                     !.pc = IF rec.kind = "video" THEN "media_stop" ELSE "settings"]
    [] OTHER ->
         [rec EXCEPT !.fellBack = FALSE,
                     !.pc = IF rec.kind = "video" THEN "duration" ELSE "commit"]

\* An await inside a helper threw: the try/catch of the helper decides.
HelperFail(rec) ==
  CASE rec.phase = "ensure" -> Resolve(rec, "ensure_catch")
    [] rec.phase = "ensure_catch" -> Throw(rec)
    [] OTHER -> AfterHelper(rec)

\* A slip: filename carries the whole path, path.basename left out.
VideoRecordFullName(filePath, duration) ==
  [type |-> "video", filePath |-> filePath, filename |-> filePath,
   startTime |-> NOW, duration |-> duration,
   durationFormatted |-> FormatDuration(duration)]

\* The record a handler assigns to currentPlayingMedia.
VideoRecord(filePath, duration) ==
  [type |-> "video", filePath |-> filePath, filename |-> Basename(filePath),
   startTime |-> NOW, duration |-> duration,
   durationFormatted |-> FormatDuration(duration)]

ImageRecord(filePath) ==
  [type |-> "image", filePath |-> filePath, filename |-> Basename(filePath),
   startTime |-> NOW, duration |-> NullNumber]

\* A slip: broadcastCurrentPlaying() is called before the assignment.
CommitBroadcastFirst(r, rec, media) ==
  /\ currentPlayingMedia' = media
  /\ lastEmit' = [event |-> "currentPlaying", media |-> currentPlayingMedia,
                  connected |-> FALSE]
  /\ Broadcast(lastEmit')
  /\ req' = [req EXCEPT ![r] =
       [Respond(rec, Reply("200", TRUE, NULL)) EXCEPT !.committed = TRUE]]

\* currentPlayingMedia = {...}; broadcastCurrentPlaying(); res.json({ ok: true })
Commit(r, rec, media) ==
  /\ currentPlayingMedia' = media
  /\ lastEmit' = [event |-> "currentPlaying", media |-> media,
                  connected |-> FALSE]
  /\ Broadcast(lastEmit')
  /\ req' = [req EXCEPT ![r] =
       [Respond(rec, Reply("200", TRUE, NULL)) EXCEPT !.committed = TRUE]]

\* The handler of slot r continues as rec: it commits when it reached its end.
Settle(r, rec) ==
  IF rec.pc = "commit"
    THEN Commit(r, rec, IF rec.kind = "stop" THEN NoMedia ELSE ImageRecord(rec.filePath))
    ELSE /\ req' = [req EXCEPT ![r] = rec]
         /\ UNCHANGED <<currentPlayingMedia, lastEmit, observers>>

\* The last engine call of a transition has returned and its commit follows.
EngineCallsOver(rec) == rec.pc \in {"commit", "duration"}

\* ------------------------------------------------------------ the engine
\* obs.call reaches the engine
Reachable == sock = "identified"

\* items.some(item => item.sourceName === sourceName) / items.find(..)
ExistsInScene(scene, src) == items[scene][src] # <<>>

\* Some scene item of the source is enabled in the scene: the source shows.
Shown(scene, src) ==
  \E i \in 1..Len(items[scene][src]) : items[scene][src][i]

\* CreateSceneItem / CreateInput add an enabled scene item
WithNewItem(scene, src) ==
  [items EXCEPT ![scene][src] = Append(@, TRUE)]

\* A slip: SetSceneItemEnabled leaves the item as it was.
WithEnabledIgnored(scene, src, flag) == items

\* SetSceneItemEnabled on the item that find() returned: the first one
WithEnabled(scene, src, flag) ==
  [items EXCEPT ![scene][src] = [@ EXCEPT ![1] = flag]]

\* One await obs.call(..) of slot r at position pc: it resolves (ok) or
\* rejects, and the handler continues as next.  The record notes that the
\* request has called the engine, and whether a call of it was rejected.
Call(r, pc, ok, next) ==
  /\ req[r].pc = pc
  /\ Settle(r, [next EXCEPT !.called = TRUE, !.failed = @ \/ ~ok])
  /\ lastEngineDone' = IF EngineCallsOver(next) THEN r ELSE lastEngineDone
  /\ UNCHANGED <<obsConnected, CONFIG, sock, ctlVars>>

\* ------------------------------------------------------------ route handlers
\* A slip: the path is checked against the media root the process started
\* with, not against the configured one.
PathAcceptedByStartupRoot(filePath) == StartsWith(filePath, DefaultMediaDir)

\* A slip: the path must lie inside the media root, a separator following it.
PathAcceptedInsideRoot(filePath) ==
  StartsWith(filePath, Append(CONFIG.MEDIA_DIR, "/"))

\* filePath.startsWith(CONFIG.MEDIA_DIR)
PathAccepted(filePath) == StartsWith(filePath, CONFIG.MEDIA_DIR)

\* A slip: the path is validated only after the scene switch was issued.
PlayEntrySwitchFirst(rec) ==
  IF ~obsConnected
    THEN Respond(rec, Reply("503", FALSE, "OBS not connected"))
  ELSE IF CONFIG.OBS_TARGET_SCENE # CURRENT_SCENE
    THEN [rec EXCEPT !.pc = "switch", !.scene = CONFIG.OBS_TARGET_SCENE]
  ELSE IF ~StartsWith(rec.filePath, CONFIG.MEDIA_DIR)
    THEN Respond(rec, Reply("400", FALSE, "invalid path"))
  ELSE EnterEnsure(rec)

\* A slip: the connection guard is missing.
PlayEntryUnguarded(rec) ==
  IF ~StartsWith(rec.filePath, CONFIG.MEDIA_DIR)
    THEN Respond(rec, Reply("400", FALSE, "invalid path"))
  ELSE IF CONFIG.OBS_TARGET_SCENE # CURRENT_SCENE
    THEN [rec EXCEPT !.pc = "switch", !.scene = CONFIG.OBS_TARGET_SCENE]
  ELSE EnterEnsure(rec)

\* The two early returns of /play/video and /show/image, then the scene switch
\* or, in follow mode, the ensure helper.
PlayEntry(rec) ==
  IF ~PathAccepted(rec.filePath)
    THEN Respond(rec, Reply("400", FALSE, "invalid path"))
  ELSE IF ~obsConnected
    THEN Respond(rec, Reply("503", FALSE, "OBS not connected"))
  ELSE IF CONFIG.OBS_TARGET_SCENE # CURRENT_SCENE
    THEN [rec EXCEPT !.pc = "switch", !.scene = CONFIG.OBS_TARGET_SCENE]
  ELSE EnterEnsure(rec)

\* POST /play/video and POST /show/image arrive
StartPlay(r, kind, filePath) ==
  /\ req[r].pc = "idle"
  /\ req' = [req EXCEPT ![r] =
       PlayEntry([IdleReq EXCEPT !.kind = kind, !.filePath = filePath])]
  /\ UNCHANGED <<obsConnected, currentPlayingMedia, CONFIG, lastEmit, sock,
                 engineVars, lastEngineDone, observers, ctlVars>>

\* The early return of /stop/all, then hideSource(CONFIG.OBS_VIDEO_INPUT).
StopEntry(rec) ==
  IF ~obsConnected
    THEN Respond(rec, Reply("503", FALSE, "OBS not connected"))
    ELSE Resolve(rec, "hide")

\* POST /stop/all arrives
StartStop(r) ==
  /\ req[r].pc = "idle"
  /\ req' = [req EXCEPT ![r] = StopEntry([IdleReq EXCEPT !.kind = "stop"])]
  /\ UNCHANGED <<obsConnected, currentPlayingMedia, CONFIG, lastEmit, sock,
                 engineVars, lastEngineDone, observers, ctlVars>>

\* A slip: the switch goes to the first scene of the engine, not to the target.
SwitchSceneToFirst(r, fault) ==
  LET rec == req[r]
      ok == ~fault /\ Reachable /\ rec.scene \in Scenes
  IN /\ Call(r, "switch", ok,
             EnterEnsure(rec))
     /\ programScene' = IF ok THEN SceneList[1] ELSE programScene
     /\ UNCHANGED <<inputs, items>>

\* await obs.call("SetCurrentProgramScene", ..) in its own try/catch
SwitchScene(r, fault) ==
  LET rec == req[r]
      ok == ~fault /\ Reachable /\ rec.scene \in Scenes
  IN /\ Call(r, "switch", ok,
             EnterEnsure(rec))
     /\ programScene' = IF ok THEN rec.scene ELSE programScene
     /\ UNCHANGED <<inputs, items>>

\* ensure*Source: await obs.call("GetInputSettings", ..)
EnsureGet(r, fault) ==
  LET rec == req[r]
      ok == ~fault /\ Reachable /\ Src(rec) \in inputs
  IN /\ Call(r, "ens_get", ok,
             IF ok THEN Resolve([rec EXCEPT !.probed = TRUE], "ensure")
             ELSE HelperFail(rec))
     /\ UNCHANGED engineVars

\* A slip: the scene item is created without looking at the list.
EnsureListAlwaysAttach(r, fault) ==
  LET rec == req[r]
      ok == ~fault /\ Reachable /\ rec.scene \in Scenes
  IN /\ Call(r, "ens_list", ok,
             IF ~ok THEN HelperFail(rec) ELSE [rec EXCEPT !.pc = "ens_item"])
     /\ UNCHANGED engineVars

\* ensure*Source: await obs.call("GetSceneItemList", ..), then existsInScene
EnsureList(r, fault) ==
  LET rec == req[r]
      ok == ~fault /\ Reachable /\ rec.scene \in Scenes
  IN /\ Call(r, "ens_list", ok,
             IF ~ok THEN HelperFail(rec)
             ELSE IF ExistsInScene(rec.scene, Src(rec)) THEN AfterHelper(rec)
             ELSE [rec EXCEPT !.pc = "ens_item"])
     /\ UNCHANGED engineVars

\* ensure*Source: await obs.call("CreateSceneItem", ..)
EnsureItem(r, fault) ==
  LET rec == req[r]
      ok == ~fault /\ Reachable /\ rec.scene \in Scenes /\ Src(rec) \in inputs
  IN /\ Call(r, "ens_item", ok,
             IF ok THEN AfterHelper(rec) ELSE HelperFail(rec))
     /\ items' = IF ok THEN WithNewItem(rec.scene, Src(rec)) ELSE items
     /\ UNCHANGED <<inputs, programScene>>

\* ensure*Source, catch block: await obs.call("CreateInput", ..)
EnsureCreate(r, fault) ==
  LET rec == req[r]
      ok == ~fault /\ Reachable /\ rec.scene \in Scenes /\ Src(rec) \notin inputs
  IN /\ Call(r, "ens_create", ok,
             IF ok THEN AfterHelper(rec) ELSE HelperFail(rec))
     /\ inputs' = IF ok THEN inputs \cup {Src(rec)} ELSE inputs
     /\ items' = IF ok THEN WithNewItem(rec.scene, Src(rec)) ELSE items
     /\ UNCHANGED programScene

\* getCurrentScene: await obs.call("GetCurrentProgramScene"), and its catch
GcsProgram(r, fault) ==
  LET rec == req[r]
      ok == ~fault /\ Reachable
      target == CONFIG.OBS_TARGET_SCENE
  IN /\ Call(r, "gcs_prog", ok,
             IF ok THEN GcsReturn(rec, programScene)
             ELSE IF target # "Scene" /\ target # CURRENT_SCENE
               THEN GcsReturn([rec EXCEPT !.fellBack = TRUE], target)
             ELSE [rec EXCEPT !.pc = "gcs_list", !.fellBack = TRUE])
     /\ UNCHANGED engineVars

\* getCurrentScene, catch block: await obs.call("GetSceneList")
GcsList(r, fault) ==
  LET rec == req[r]
      ok == ~fault /\ Reachable
  IN /\ Call(r, "gcs_list", ok,
             IF ok THEN GcsReturn(rec, SceneList[1]) ELSE HelperFail(rec))
     /\ UNCHANGED engineVars

\* hideSource / showSource: await obs.call("GetSceneItemList", ..), then find
VisList(r, fault) ==
  LET rec == req[r]
      ok == ~fault /\ Reachable /\ rec.scene \in Scenes
  IN /\ Call(r, "vis_list", ok,
             IF ok /\ ExistsInScene(rec.scene, Src(rec))
               THEN [rec EXCEPT !.pc = "vis_set"]
               ELSE AfterHelper(rec))
     /\ UNCHANGED engineVars

\* sceneItemEnabled: false in hideSource, true in showSource
EnabledFlag(phase) == phase = "show"

\* A slip: a rejected SetSceneItemEnabled is not caught by the helper.
VisSetUncaught(r, fault) ==
  LET rec == req[r]
      ok == ~fault /\ Reachable
      flag == EnabledFlag(rec.phase)
  IN /\ Call(r, "vis_set", ok,
             IF ok THEN AfterHelper(rec) ELSE Throw(rec))
     /\ items' = IF ok THEN WithEnabled(rec.scene, Src(rec), flag) ELSE items
     /\ UNCHANGED <<inputs, programScene>>

\* hideSource / showSource: await obs.call("SetSceneItemEnabled", ..)
VisSet(r, fault) ==
  LET rec == req[r]
      ok == ~fault /\ Reachable
      flag == EnabledFlag(rec.phase)
  IN /\ Call(r, "vis_set", ok,
             AfterHelper(rec))
     /\ items' = IF ok THEN WithEnabled(rec.scene, Src(rec), flag) ELSE items
     /\ UNCHANGED <<inputs, programScene>>

\* A slip: STOP is awaited without a try/catch of its own.
MediaStopUncaught(r, fault) ==
  LET rec == req[r]
      ok == ~fault /\ Reachable /\ Src(rec) \in inputs
  IN /\ Call(r, "media_stop", ok,
             IF ok THEN [rec EXCEPT !.pc = "settings"] ELSE Throw(rec))
     /\ UNCHANGED engineVars

\* /play/video: TriggerMediaInputAction STOP in its own try/catch
MediaStop(r, fault) ==
  LET rec == req[r]
      ok == ~fault /\ Reachable /\ Src(rec) \in inputs
  IN /\ Call(r, "media_stop", ok,
             [rec EXCEPT !.pc = "settings"])
     /\ UNCHANGED engineVars

\* A slip: SetInputSettings wrapped in a try/catch of its own, as STOP is.
SettingsSwallowed(r, fault) ==
  LET rec == req[r]
      ok == ~fault /\ Reachable /\ Src(rec) \in inputs
  IN /\ Call(r, "settings", ok,
             IF rec.kind = "video" THEN [rec EXCEPT !.pc = "restart"]
             ELSE Resolve(rec, "fit"))
     /\ UNCHANGED engineVars

\* await obs.call("SetInputSettings", ..): a failure reaches the route's catch
Settings(r, fault) ==
  LET rec == req[r]
      ok == ~fault /\ Reachable /\ Src(rec) \in inputs
  IN /\ Call(r, "settings", ok,
             IF ~ok THEN Throw(rec)
             ELSE IF rec.kind = "video" THEN [rec EXCEPT !.pc = "restart"]
             ELSE Resolve(rec, "fit"))
     /\ UNCHANGED engineVars

\* /play/video: TriggerMediaInputAction RESTART, then fitToScreen
Restart(r, fault) ==
  LET rec == req[r]
      ok == ~fault /\ Reachable /\ Src(rec) \in inputs
  IN /\ Call(r, "restart", ok,
             IF ok THEN Resolve(rec, "fit") ELSE Throw(rec))
     /\ UNCHANGED engineVars

\* fitToScreen: await obs.call("GetVideoSettings")
FitVideo(r, fault) ==
  LET rec == req[r]
      ok == ~fault /\ Reachable
  IN /\ Call(r, "fit_video", ok,
             IF ok THEN [rec EXCEPT !.pc = "fit_list"] ELSE AfterHelper(rec))
     /\ UNCHANGED engineVars

\* fitToScreen: await obs.call("GetSceneItemList", ..), then find
FitList(r, fault) ==
  LET rec == req[r]
      ok == ~fault /\ Reachable /\ rec.scene \in Scenes
  IN /\ Call(r, "fit_list", ok,
             IF ok /\ ExistsInScene(rec.scene, Src(rec))
               THEN [rec EXCEPT !.pc = "fit_get"]
               ELSE AfterHelper(rec))
     /\ UNCHANGED engineVars

\* fitToScreen: await obs.call("GetInputSettings", ..)
FitGet(r, fault) ==
  LET rec == req[r]
      ok == ~fault /\ Reachable /\ Src(rec) \in inputs
  IN /\ Call(r, "fit_get", ok,
             IF ok THEN [rec EXCEPT !.pc = "fit_set"] ELSE AfterHelper(rec))
     /\ UNCHANGED engineVars

\* fitToScreen: await obs.call("SetSceneItemTransform", ..)
FitSet(r, fault) ==
  LET rec == req[r]
      ok == ~fault /\ Reachable
  IN /\ Call(r, "fit_set", ok,
             AfterHelper(rec))
     /\ UNCHANGED engineVars

\* getVideoDuration resolves either to the probed seconds or to null
DurationResults(filePath) == {NullNumber, <<ProbedSeconds(filePath)>>}

\* /play/video: const duration = await getVideoDuration(filePath), and the commit
Duration(r) ==
  /\ req[r].pc = "duration"
  /\ \E d \in DurationResults(req[r].filePath) :
       Commit(r, req[r], VideoRecord(req[r].filePath, d))
  /\ UNCHANGED <<obsConnected, CONFIG, sock, engineVars, lastEngineDone,
                 ctlVars>>

\* The response was sent: the request is over.
Retire(r) ==
  /\ req[r].pc = "done"
  /\ req' = [req EXCEPT ![r] = IdleReq]
  /\ lastEngineDone' = IF lastEngineDone = r THEN 0 ELSE lastEngineDone
  /\ UNCHANGED <<obsConnected, currentPlayingMedia, CONFIG, lastEmit, sock,
                 engineVars, observers, ctlVars>>

\* ------------------------------------------------------------ connection
\* io.emit('obsStatus', { connected })
EmitStatus(connected) ==
  /\ lastEmit' = [event |-> "obsStatus", media |-> NoMedia,
                  connected |-> connected]
  /\ Broadcast(lastEmit')

\* POST /obs/connect while disconnected, obs.connect succeeding
Connect ==
  /\ ~obsConnected
  /\ sock = "closed"
  /\ sock' = "identified"
  /\ obsConnected' = TRUE
  /\ EmitStatus(TRUE)
  /\ UNCHANGED <<currentPlayingMedia, CONFIG, req, engineVars, lastEngineDone,
                 ctlVars>>

\* obs.connect rejected: connectOBS catches (line 99) and the route answers 503
ConnectFailed(c) ==
  IF c.pc \in {"connecting", "open"}
    THEN [c EXCEPT !.pc = "done",
                   !.resp = Reply("503", FALSE, "Failed to connect to OBS")]
    ELSE c

\* obs.disconnect resolved: /obs/disconnect (lines 822-828) and /api/settings
\* (lines 1109-1121) set obsConnected = false and answer
Disconnected(c) ==
  IF c.pc = "closing"
    THEN [c EXCEPT !.pc = "done", !.resp = Reply("200", TRUE, NULL)]
    ELSE c

\* A slip: the handler of the older version, which reconnects by itself
\* (setTimeout(connectOBS, 3000)).
RemoteCloseRetrying ==
  /\ sock # "closed"
  /\ sock' = "connecting"
  /\ obsConnected' = FALSE
  /\ EmitStatus(FALSE)
  /\ conn' = [ConnectFailed(conn) EXCEPT !.pc = "connecting"]
  /\ ctl' = Disconnected(ctl)
  /\ UNCHANGED <<currentPlayingMedia, CONFIG, req, engineVars, lastEngineDone,
                 poll, progress>>

\* A slip: the ConnectionClosed handler sets the flag and emits nothing.
RemoteCloseSilent ==
  /\ sock # "closed"
  /\ sock' = "closed"
  /\ obsConnected' = FALSE
  /\ conn' = ConnectFailed(conn)
  /\ ctl' = Disconnected(ctl)
  /\ UNCHANGED <<currentPlayingMedia, CONFIG, req, engineVars, lastEngineDone,
                 poll, progress, lastEmit, observers>>

\* A slip: the ConnectionClosed callback also takes the content off the record.
RemoteCloseClearing ==
  /\ sock # "closed"
  /\ sock' = "closed"
  /\ obsConnected' = FALSE
  /\ currentPlayingMedia' = NoMedia
  /\ EmitStatus(FALSE)
  /\ conn' = ConnectFailed(conn)
  /\ ctl' = Disconnected(ctl)
  /\ UNCHANGED <<CONFIG, req, engineVars, lastEngineDone, poll, progress>>

\* The socket closes, whoever closed it (the engine, the network, the close
\* handshake that obs.disconnect started, a refused or unauthenticated
\* connection attempt): obs.on("ConnectionClosed") runs, then the
\* continuations of the requests that awaited obs.connect or obs.disconnect.
\* Each of them leaves obsConnected false; /obs/disconnect broadcasts again.
RemoteClose ==
  /\ sock # "closed"
  /\ sock' = "closed"
  /\ obsConnected' = FALSE
  /\ EmitStatus(FALSE)
  /\ conn' = ConnectFailed(conn)
  /\ ctl' = Disconnected(ctl)
  /\ UNCHANGED <<currentPlayingMedia, CONFIG, req, engineVars, lastEngineDone,
                 poll, progress>>

\* POST /obs/connect: the early return, or connectOBS() calling obs.connect
ConnectRequest ==
  /\ conn.pc = "idle"
  /\ IF obsConnected
       THEN /\ conn' = [conn EXCEPT !.pc = "done",
                                    !.resp = Reply("200", TRUE, NULL)]
            /\ sock' = sock
       ELSE /\ sock = "closed"
            /\ conn' = [conn EXCEPT !.pc = "connecting", !.called = TRUE]
            /\ sock' = "connecting"
  /\ UNCHANGED <<obsConnected, currentPlayingMedia, CONFIG, req, lastEmit,
                 engineVars, lastEngineDone, observers, ctl, poll, progress>>

\* A slip: the ConnectionOpened handler sets the flag and emits nothing.
ConnectOpenedSilent ==
  /\ conn.pc = "connecting"
  /\ sock = "connecting"
  /\ sock' = "open"
  /\ obsConnected' = TRUE
  /\ conn' = [conn EXCEPT !.pc = "open"]
  /\ UNCHANGED <<currentPlayingMedia, CONFIG, req, engineVars, lastEngineDone,
                 ctl, poll, progress, lastEmit, observers>>

\* The transport of the attempt opens: obs.on("ConnectionOpened") runs, before
\* the engine has accepted the password.
ConnectOpened ==
  /\ conn.pc = "connecting"
  /\ sock = "connecting"
  /\ sock' = "open"
  /\ obsConnected' = TRUE
  /\ EmitStatus(TRUE)
  /\ conn' = [conn EXCEPT !.pc = "open"]
  /\ UNCHANGED <<currentPlayingMedia, CONFIG, req, engineVars, lastEngineDone,
                 ctl, poll, progress>>

\* The engine identifies the client: obs.connect resolves, connectOBS sets
\* obsConnected (line 96), the route broadcasts and answers (lines 803-806).
ConnectIdentified ==
  /\ conn.pc = "open"
  /\ sock = "open"
  /\ sock' = "identified"
  /\ obsConnected' = TRUE
  /\ EmitStatus(TRUE)
  /\ conn' = [conn EXCEPT !.pc = "done", !.resp = Reply("200", TRUE, NULL)]
  /\ UNCHANGED <<currentPlayingMedia, CONFIG, req, engineVars, lastEngineDone,
                 ctl, poll, progress>>

\* A slip: the early return is missing, obs.disconnect() is always called.
DisconnectRequestUnguarded ==
  /\ ctl.pc = "idle"
  /\ IF sock = "closed"
       THEN /\ ctl' = [ctl EXCEPT !.kind = "disconnect", !.pc = "done",
                                  !.called = TRUE,
                                  !.resp = Reply("200", TRUE, NULL)]
            /\ sock' = sock
       ELSE /\ ctl' = [ctl EXCEPT !.kind = "disconnect", !.pc = "closing",
                                  !.called = TRUE]
            /\ sock' = "closing"
  /\ UNCHANGED <<obsConnected, currentPlayingMedia, CONFIG, req, lastEmit,
                 engineVars, lastEngineDone, observers, conn, poll, progress>>

\* POST /obs/disconnect: the early return, or obs.disconnect() closing the socket
DisconnectRequest ==
  /\ ctl.pc = "idle"
  /\ IF ~obsConnected
       THEN /\ ctl' = [ctl EXCEPT !.kind = "disconnect", !.pc = "done",
                                  !.resp = Reply("200", TRUE, NULL)]
            /\ sock' = sock
       ELSE /\ ctl' = [ctl EXCEPT !.kind = "disconnect", !.pc = "closing",
                                  !.called = TRUE]
            /\ sock' = "closing"
  /\ UNCHANGED <<obsConnected, currentPlayingMedia, CONFIG, req, lastEmit,
                 engineVars, lastEngineDone, observers, conn, poll, progress>>

\* The response of a connection or settings request was sent.
ControlRetire ==
  /\ \/ conn.pc = "done" /\ conn' = NoConn /\ ctl' = ctl
     \/ ctl.pc = "done" /\ ctl' = NoCtl /\ conn' = conn
  /\ UNCHANGED <<obsConnected, currentPlayingMedia, CONFIG, req, lastEmit, sock,
                 engineVars, lastEngineDone, observers, poll, progress>>

\* ------------------------------------------------------------ scene and media routes
\* req.body.sceneName of POST /obs/scene: a name, or NULL when it is missing.
SceneNames == TargetChoices \cup {NULL}

\* POST /obs/scene: the two early returns, then the assignment to
\* CONFIG.OBS_TARGET_SCENE and, for a scene name, SetCurrentProgramScene.
\* Requests that write CONFIG are served one at a time (ctl), so the
\* configured target still is sceneName when the call is answered.
SceneRequest(names) ==
  /\ ctl.pc = "idle"
  /\ \E sceneName \in names :
       IF ~obsConnected
         THEN /\ ctl' = [ctl EXCEPT !.kind = "scene", !.pc = "done",
                           !.resp = Reply("503", FALSE, "OBS not connected")]
              /\ CONFIG' = CONFIG
       ELSE IF sceneName = NULL
         THEN /\ ctl' = [ctl EXCEPT !.kind = "scene", !.pc = "done",
                           !.resp = Reply("400", FALSE, "Scene name is required")]
              /\ CONFIG' = CONFIG
       ELSE /\ CONFIG' = [CONFIG EXCEPT !.OBS_TARGET_SCENE = sceneName]
            /\ ctl' = IF sceneName # CURRENT_SCENE
                        THEN [ctl EXCEPT !.kind = "scene", !.pc = "call",
                                !.called = TRUE,
                                !.changed = sceneName # CONFIG.OBS_TARGET_SCENE]
                        ELSE [ctl EXCEPT !.kind = "scene", !.pc = "done",
                                !.resp = Reply("200", TRUE, NULL),
                                !.changed = sceneName # CONFIG.OBS_TARGET_SCENE]
  /\ UNCHANGED <<obsConnected, currentPlayingMedia, req, lastEmit, sock,
                 engineVars, lastEngineDone, observers, conn, poll, progress>>

\* /obs/scene: await obs.call("SetCurrentProgramScene", { sceneName })
SceneAnswer(fault) ==
  LET ok == ~fault /\ Reachable /\ CONFIG.OBS_TARGET_SCENE \in Scenes
  IN /\ ctl.kind = "scene" /\ ctl.pc = "call"
     /\ programScene' = IF ok THEN CONFIG.OBS_TARGET_SCENE ELSE programScene
     /\ ctl' = [ctl EXCEPT !.pc = "done",
                           !.resp = IF ok THEN Reply("200", TRUE, NULL)
                                    ELSE Reply("500", FALSE, "e.message")]
     /\ UNCHANGED <<obsConnected, currentPlayingMedia, CONFIG, req, lastEmit,
                    sock, inputs, items, lastEngineDone, observers, conn,
                    poll, progress>>

\* req.body.action of POST /obs/control
ControlActions == {"play", "pause", "restart", "stop", "rewind"}

\* req.body.timeMs of POST /obs/seek: a number, or <<>> when it is not one
SeekTimes == {<<>>, <<0 - 1>>, <<1500>>}

\* The early returns of /obs/control and /obs/seek, or the engine call
MediaEntry(kind, valid) ==
  /\ ctl.pc = "idle"
  /\ ctl' = IF ~obsConnected
              THEN [ctl EXCEPT !.kind = kind, !.pc = "done",
                      !.resp = Reply("503", FALSE, "OBS not connected")]
            ELSE IF ~valid
              THEN [ctl EXCEPT !.kind = kind, !.pc = "done",
                      !.resp = Reply("400", FALSE,
                                     IF kind = "control" THEN "Invalid action"
                                     ELSE "Invalid time value")]
            ELSE [ctl EXCEPT !.kind = kind, !.pc = "call", !.called = TRUE]
  /\ UNCHANGED <<obsConnected, currentPlayingMedia, CONFIG, req, lastEmit,
                 sock, engineVars, lastEngineDone, observers, conn, poll,
                 progress>>

\* POST /obs/control: the switch over action, then TriggerMediaInputAction
MediaControlRequest ==
  \E action \in ControlActions :
    MediaEntry("control", action \in {"play", "pause", "restart", "stop"})

\* POST /obs/seek: typeof timeMs === 'number' && timeMs >= 0, then
\* SetMediaInputCursor
SeekRequest ==
  \E timeMs \in SeekTimes :
    MediaEntry("seek", timeMs # <<>> /\ timeMs[1] >= 0)

\* A slip: the catch of the media routes marks the switcher as disconnected.
MediaAnswerMarking(fault) ==
  LET ok == ~fault /\ Reachable /\ OBS_VIDEO_INPUT \in inputs
  IN /\ ctl.kind \in {"control", "seek"} /\ ctl.pc = "call"
     /\ ctl' = [ctl EXCEPT !.pc = "done",
                           !.resp = IF ok THEN Reply("200", TRUE, NULL)
                                    ELSE Reply("500", FALSE, "e.message")]
     /\ obsConnected' = (obsConnected /\ ok)
     /\ UNCHANGED <<currentPlayingMedia, CONFIG, req, lastEmit,
                    sock, engineVars, lastEngineDone, observers, conn, poll,
                    progress>>

\* /obs/control, /obs/seek: the await of the engine call returns or throws
MediaAnswer(fault) ==
  LET ok == ~fault /\ Reachable /\ OBS_VIDEO_INPUT \in inputs
  IN /\ ctl.kind \in {"control", "seek"} /\ ctl.pc = "call"
     /\ ctl' = [ctl EXCEPT !.pc = "done",
                           !.resp = IF ok THEN Reply("200", TRUE, NULL)
                                    ELSE Reply("500", FALSE, "e.message")]
     /\ UNCHANGED <<obsConnected, currentPlayingMedia, CONFIG, req, lastEmit,
                    sock, engineVars, lastEngineDone, observers, conn, poll,
                    progress>>

\* ------------------------------------------------------------ environment
\* An operator at the engine changes the program scene.
OperatorSwitchesScene ==
  /\ \E s \in Scenes \ {programScene} : programScene' = s
  /\ UNCHANGED <<obsConnected, currentPlayingMedia, CONFIG, req, lastEmit, sock,
                 inputs, items, lastEngineDone, observers, ctlVars>>

\* ------------------------------------------------------------ settings
\* req.body of the two settings routes: a field that is absent (or empty) is
\* NullText for the media root and NULL for the others.
SettingsBodies ==
  [MEDIA_DIR : MediaDirChoices \cup {NullText},
   OBS_URL : UrlChoices \cup {NULL},
   OBS_PASSWORD : PasswordChoices \cup {NULL},
   OBS_TARGET_SCENE : TargetChoices \cup {NULL}]

\* if (body.X) CONFIG.X = body.X, for the four fields
Patched(body) ==
  [MEDIA_DIR |-> IF body.MEDIA_DIR # NullText THEN body.MEDIA_DIR
                 ELSE CONFIG.MEDIA_DIR,
   OBS_URL |-> IF body.OBS_URL # NULL THEN body.OBS_URL ELSE CONFIG.OBS_URL,
   OBS_PASSWORD |-> IF body.OBS_PASSWORD # NULL THEN body.OBS_PASSWORD
                    ELSE CONFIG.OBS_PASSWORD,
   OBS_TARGET_SCENE |-> IF body.OBS_TARGET_SCENE # NULL
                          THEN body.OBS_TARGET_SCENE
                          ELSE CONFIG.OBS_TARGET_SCENE]

\* The update replaces the engine URL or the password while connected.
ChangesEngine(body) ==
  /\ obsConnected
  /\ \/ Patched(body).OBS_URL # CONFIG.OBS_URL
     \/ Patched(body).OBS_PASSWORD # CONFIG.OBS_PASSWORD

\* POST /api/settings/localStorage: the fields present in the body are applied
ApplyLocalStorage(bodies) ==
  /\ ctl.pc = "idle"
  /\ \E body \in bodies :
       /\ CONFIG' = Patched(body)
       /\ ctl' = [ctl EXCEPT !.kind = "localStorage", !.pc = "done",
                             !.resp = Reply("200", TRUE, NULL),
                             !.changed = ChangesEngine(body)]
  /\ UNCHANGED <<obsConnected, currentPlayingMedia, req, lastEmit, sock,
                 engineVars, lastEngineDone, observers, conn, poll, progress>>

\* POST /api/settings: validation, the same four assignments, then
\* obs.disconnect() when the body names a URL or a password and obsConnected
SettingsRequest(bodies) ==
  /\ ctl.pc = "idle"
  /\ \E body \in bodies :
       IF body.MEDIA_DIR = NullText \/ body.OBS_URL = NULL
         THEN /\ ctl' = [ctl EXCEPT !.kind = "settings", !.pc = "done",
                           !.resp = Reply("400", FALSE,
                                          "MEDIA_DIR and OBS_URL are required")]
              /\ UNCHANGED <<CONFIG, sock>>
         ELSE /\ CONFIG' = Patched(body)
              /\ IF (body.OBS_URL # NULL \/ body.OBS_PASSWORD # NULL)
                    /\ obsConnected
                   THEN /\ sock' = "closing"
                        /\ ctl' = [ctl EXCEPT !.kind = "settings",
                                     !.pc = "closing", !.called = TRUE,
                                     !.changed = ChangesEngine(body)]
                   ELSE /\ sock' = sock
                        /\ ctl' = [ctl EXCEPT !.kind = "settings",
                                     !.pc = "done",
                                     !.resp = Reply("200", TRUE, NULL)]
  /\ UNCHANGED <<obsConnected, currentPlayingMedia, req, lastEmit,
                 engineVars, lastEngineDone, observers, conn, poll, progress>>

\* ------------------------------------------------------------ observers
\* What io.on('connection') and 'requestStatus' send to the one socket, in order.
StatusMessages ==
  << [event |-> "obsStatus", media |-> NoMedia, connected |-> obsConnected],
     [event |-> "currentPlaying", media |-> currentPlayingMedia,
      connected |-> FALSE] >>

\* A slip: the newcomer is sent the status only, and the payload of the last
\* broadcast in place of the record.
JoinReplaysLastEmit(o) ==
  /\ ~observers[o].joined
  /\ observers' = [observers EXCEPT ![o] =
       Receive(Receive([NoObserver EXCEPT !.joined = TRUE], StatusMessages[1]),
               [StatusMessages[2] EXCEPT !.media = lastEmit.media])]
  /\ UNCHANGED <<obsConnected, currentPlayingMedia, CONFIG, req, lastEmit, sock,
                 engineVars, lastEngineDone, ctlVars>>

\* io.on('connection'): a client connects and is sent the current state
Join(o) ==
  /\ ~observers[o].joined
  /\ observers' = [observers EXCEPT ![o] =
       Receive(Receive([NoObserver EXCEPT !.joined = TRUE], StatusMessages[1]),
               StatusMessages[2])]
  /\ UNCHANGED <<obsConnected, currentPlayingMedia, CONFIG, req, lastEmit, sock,
                 engineVars, lastEngineDone, ctlVars>>

\* socket.on('disconnect'): the client is gone
Leave(o) ==
  /\ observers[o].joined
  /\ observers' = [observers EXCEPT ![o] = NoObserver]
  /\ UNCHANGED <<obsConnected, currentPlayingMedia, CONFIG, req, lastEmit, sock,
                 engineVars, lastEngineDone, ctlVars>>

\* A slip: the answer is sent with io.emit, to every client.
RequestStatusToAll(o) ==
  /\ observers[o].joined
  /\ observers' = [p \in Observers |->
       IF observers[p].joined
         THEN Receive(Receive(Delivery(observers[p], p = o), StatusMessages[1]),
                      StatusMessages[2])
         ELSE observers[p]]
  /\ UNCHANGED <<obsConnected, currentPlayingMedia, CONFIG, req, lastEmit, sock,
                 engineVars, lastEngineDone, ctlVars>>

\* socket.on('requestStatus'): the same two messages again, to that socket
RequestStatus(o) ==
  /\ observers[o].joined
  /\ observers' = [observers EXCEPT ![o] =
       Receive(Receive(Delivery(observers[o], TRUE), StatusMessages[1]),
               StatusMessages[2])]
  /\ UNCHANGED <<obsConnected, currentPlayingMedia, CONFIG, req, lastEmit, sock,
                 engineVars, lastEngineDone, ctlVars>>

\* ------------------------------------------------------------ progress
\* The sample of the catch block (lines 171-177).
SyntheticSample ==
  [mediaState |-> "OBS_MEDIA_STATE_NONE", mediaDuration |-> 0,
   mediaCursor |-> 0, playing |-> FALSE]

\* What the engine may answer to GetMediaInputStatus for the video input:
\* mediaState, mediaDuration and mediaCursor (null when nothing is loaded).
MediaStatuses ==
  { [mediaState |-> "OBS_MEDIA_STATE_PLAYING", mediaDuration |-> <<5>>,
     mediaCursor |-> <<2>>],
    [mediaState |-> "OBS_MEDIA_STATE_ENDED", mediaDuration |-> <<5>>,
     mediaCursor |-> <<5>>],
    [mediaState |-> "OBS_MEDIA_STATE_STOPPED", mediaDuration |-> NullNumber,
     mediaCursor |-> NullNumber] }

\* value || 0
OrZero(n) == IF n = NullNumber THEN 0 ELSE n[1]

\* progressData (lines 160-166)
ProgressData(mediaState) ==
  [mediaState |-> mediaState.mediaState,
   mediaDuration |-> OrZero(mediaState.mediaDuration),
   mediaCursor |-> OrZero(mediaState.mediaCursor),
   playing |-> mediaState.mediaState = "OBS_MEDIA_STATE_PLAYING"]

\* The interval timer fires: broadcastVideoProgress runs up to its await, or
\* returns at line 152.
Tick ==
  /\ poll.pc = "idle"
  /\ poll' = IF ~obsConnected \/ currentPlayingMedia.type # "video"
               THEN [NoPoll EXCEPT !.pc = "done"]
               ELSE [NoPoll EXCEPT !.pc = "query", !.live = TRUE]
  /\ UNCHANGED <<obsConnected, currentPlayingMedia, CONFIG, req, lastEmit, sock,
                 engineVars, lastEngineDone, observers, conn, ctl, progress>>

\* A slip: the catch block is empty.
PollAnswerSilent(fault) ==
  LET ok == ~fault /\ Reachable /\ OBS_VIDEO_INPUT \in inputs
  IN /\ poll.pc = "query"
     /\ IF ok
          THEN /\ \E mediaState \in MediaStatuses :
                    progress' = ProgressData(mediaState)
               /\ poll' = [poll EXCEPT !.pc = "done", !.pushed = @ + 1,
                                       !.origin = "engine"]
          ELSE /\ progress' = progress
               /\ poll' = [poll EXCEPT !.pc = "done"]
     /\ UNCHANGED <<obsConnected, currentPlayingMedia, CONFIG, req, lastEmit,
                    sock, engineVars, lastEngineDone, observers, conn, ctl>>

\* await obs.call("GetMediaInputStatus", ..) returns or throws, and the emit
PollAnswer(fault) ==
  LET ok == ~fault /\ Reachable /\ OBS_VIDEO_INPUT \in inputs
  IN /\ poll.pc = "query"
     /\ IF ok
          THEN /\ \E mediaState \in MediaStatuses :
                    progress' = ProgressData(mediaState)
               /\ poll' = [poll EXCEPT !.pc = "done", !.pushed = @ + 1,
                                       !.origin = "engine"]
          ELSE /\ progress' = SyntheticSample
               /\ poll' = [poll EXCEPT !.pc = "done", !.pushed = @ + 1,
                                       !.origin = "synthetic"]
     /\ UNCHANGED <<obsConnected, currentPlayingMedia, CONFIG, req, lastEmit,
                    sock, engineVars, lastEngineDone, observers, conn, ctl>>

\* broadcastVideoProgress has returned; the timer stays armed.
PollOver ==
  /\ poll.pc = "done"
  /\ poll' = NoPoll
  /\ UNCHANGED <<obsConnected, currentPlayingMedia, CONFIG, req, lastEmit, sock,
                 engineVars, lastEngineDone, observers, conn, ctl, progress>>

\* ------------------------------------------------------------ specification
\* The engine may reject any call (busy, locked, gone): fault = TRUE.
Faults == {FALSE, TRUE}
Reliable == {FALSE}

\* One step of the request in slot r, the engine failing as F allows.
Step(r, F) ==
  \/ \E fault \in F :
       \/ SwitchScene(r, fault) \/ EnsureGet(r, fault) \/ EnsureList(r, fault)
       \/ EnsureItem(r, fault) \/ EnsureCreate(r, fault) \/ GcsProgram(r, fault)
       \/ VisList(r, fault) \/ VisSet(r, fault)
       \/ MediaStop(r, fault) \/ Settings(r, fault) \/ Restart(r, fault)
       \/ FitVideo(r, fault) \/ FitList(r, fault) \/ FitGet(r, fault)
       \/ FitSet(r, fault)
  \/ Duration(r)
  \/ Retire(r)

\* The step that only a failed GetCurrentProgramScene leads to.
Fallback(r, F) == \E fault \in F : GcsList(r, fault)

\* A request is served by the lowest free slot (slots are interchangeable).
FreeSlot(r) == req[r].pc = "idle" /\ \A q \in Slots : q < r => req[q].pc # "idle"

Arrive(r, paths) ==
  /\ FreeSlot(r)
  /\ \/ \E kind \in {"video", "image"}, filePath \in paths :
          StartPlay(r, kind, filePath)
     \/ StartStop(r)

\* Requests that do not overlap: one arrives when every other is over.
ArriveAlone(r) ==
  /\ \A q \in Slots : req[q].pc = "idle"
  /\ Arrive(r, FilePaths)

Environment ==
  \/ Connect
  \/ RemoteClose

\* One request at a time, the engine failing and the connection dropping at
\* any moment.
Next ==
  \/ \E r \in Slots : ArriveAlone(r)
  \/ \E r \in Slots : Step(r, Faults)
  \/ \E r \in Slots : Fallback(r, Faults)
  \/ Environment

Spec == Init /\ [][Next]_vars

\* Overlapping requests for one file of the library, the engine connected and
\* answering every call.
RacePaths == {<<"/", "m", "/", "a">>}

NextRace ==
  \/ \E r \in Slots : Arrive(r, RacePaths)
  \/ \E r \in Slots : Step(r, Reliable)
  \/ Connect

\* The configuration as constructed, or set to follow the program scene.
InitRace ==
  /\ Init
  /\ CONFIG.MEDIA_DIR = DefaultMediaDir
  /\ CONFIG.OBS_TARGET_SCENE \in {DefaultTargetScene, CURRENT_SCENE}
  /\ programScene = "Scene"

SpecRace == InitRace /\ [][NextRace]_vars

\* One request at a time, the engine connected and answering every call.
NextReliable ==
  \/ \E r \in Slots : ArriveAlone(r)
  \/ \E r \in Slots : Step(r, Reliable)
  \/ Connect
  \/ OperatorSwitchesScene

SpecReliable == Init /\ [][NextReliable]_vars

\* The connection and settings routes, the engine closing the socket at any
\* moment.
Control(bodies) ==
  \/ ConnectRequest \/ ConnectOpened \/ ConnectIdentified
  \/ DisconnectRequest \/ SettingsRequest(bodies) \/ ApplyLocalStorage(bodies)
  \/ RemoteClose \/ ControlRetire

\* The observers of O come, ask and go.
Audience(O) == \E o \in O : Join(o) \/ Leave(o) \/ RequestStatus(o)

NextControl == Control(SettingsBodies) \/ Audience(Observers)

SpecControl == InitRace /\ [][NextControl]_vars

\* The progress task.
Progress == Tick \/ (\E fault \in Faults : PollAnswer(fault)) \/ PollOver

\* The engine with both inputs created: with a fixed target scene both are
\* in it, in follow mode the video input is in no scene yet.
InitStaged ==
  /\ InitRace
  /\ inputs = Sources
  /\ ExistsInScene(TargetScene, OBS_IMAGE_INPUT)
  /\ ExistsInScene(TargetScene, OBS_VIDEO_INPUT)
       = (CONFIG.OBS_TARGET_SCENE # CURRENT_SCENE)

\* Settings updates that name the engine URL, or nothing.
UrlBodies ==
  {body \in SettingsBodies :
     /\ body.MEDIA_DIR \in {DefaultMediaDir, NullText}
     /\ body.OBS_PASSWORD = NULL /\ body.OBS_TARGET_SCENE = NULL
     /\ (body.OBS_URL = NULL) = (body.MEDIA_DIR = NullText)}

\* Everything an observer can watch: playout requests one at a time, the
\* connection and settings routes, and one observer coming and going.
NextAll ==
  \/ \E r \in Slots : ArriveAlone(r) /\ req'[r].filePath \in RacePaths \cup {<<>>}
  \/ \E r \in Slots : Step(r, Reliable)
  \/ Control(UrlBodies)
  \/ Audience({1})

SpecAll == InitStaged /\ [][NextAll]_vars

\* The progress task beside playout requests one at a time, the engine
\* failing and the connection coming and going.
NextProgress ==
  \/ \E r \in Slots : ArriveAlone(r) /\ req'[r].filePath \in RacePaths \cup {<<>>}
  \/ \E r \in Slots : Step(r, Reliable)
  \/ Environment
  \/ Progress

SpecProgress == InitStaged /\ [][NextProgress]_vars

\* Settings updates that move the media root, or name nothing.
DirBodies ==
  {body \in SettingsBodies :
     /\ body.OBS_PASSWORD = NULL /\ body.OBS_TARGET_SCENE = NULL
     /\ body.OBS_URL \in {NULL, DefaultUrl}
     /\ (body.OBS_URL = NULL) = (body.MEDIA_DIR = NullText)}

\* No request is being served and broadcastVideoProgress is not running.
NothingInFlight ==
  /\ \A r \in Slots : req[r].pc = "idle"
  /\ conn.pc = "idle" /\ ctl.pc = "idle" /\ poll.pc = "idle"

\* Every route, socket event and timer of the server.  Connect and disconnect
\* requests arrive at any moment, as the engine closes the socket at any
\* moment; a playout, settings, scene or media request, an observer event or
\* a tick begins when nothing else is in flight.
NextWhole ==
  \/ /\ NothingInFlight
     /\ \/ \E r \in Slots : Arrive(r, RacePaths \cup {<<>>})
        \/ SettingsRequest(UrlBodies) \/ ApplyLocalStorage(UrlBodies)
        \/ SceneRequest(SceneNames \ {"Live"})
        \/ MediaControlRequest \/ SeekRequest
        \/ Audience({1})
        \/ Tick
  \/ \E r \in Slots : Step(r, Reliable)
  \/ ConnectRequest \/ ConnectOpened \/ ConnectIdentified
  \/ DisconnectRequest \/ ControlRetire \/ RemoteClose
  \/ \E fault \in Faults : SceneAnswer(fault) \/ MediaAnswer(fault)
  \/ \E fault \in Faults : PollAnswer(fault)
  \/ PollOver

SpecWhole == InitStaged /\ [][NextWhole]_vars

\* Playout requests one at a time between settings updates that move the
\* media root, the engine answering every call while the socket is up.
NextPaths ==
  \/ /\ NothingInFlight
     /\ \/ \E r \in Slots : Arrive(r, FilePaths)
        \/ SettingsRequest(DirBodies) \/ ApplyLocalStorage(DirBodies)
  \/ \E r \in Slots : Step(r, Reliable)
  \/ ConnectRequest \/ ConnectOpened \/ ConnectIdentified
  \/ ControlRetire \/ RemoteClose

SpecPaths == InitStaged /\ [][NextPaths]_vars

\* Requests in a row: one arrives when every other has been answered, and an
\* answered request stays in its slot until it is retired.  The engine
\* answers every call while the socket is up; the socket comes and goes.
NextInARow ==
  \/ \E r \in Slots : (\A q \in Slots : ~InFlight(q)) /\ Arrive(r, RacePaths)
  \/ \E r \in Slots : Step(r, Reliable)
  \/ Environment

SpecInARow == InitRace /\ [][NextInARow]_vars

\* Two observers coming, asking and going at any moment, beside playout
\* requests one at a time and the connection coming and going.
NextAudience ==
  \/ \E r \in Slots : ArriveAlone(r) /\ req'[r].filePath \in RacePaths
  \/ \E r \in Slots : Step(r, Reliable)
  \/ ConnectRequest \/ ConnectOpened \/ ConnectIdentified
  \/ DisconnectRequest \/ ControlRetire \/ RemoteClose
  \/ Audience(Observers)

SpecAudience == InitStaged /\ [][NextAudience]_vars

\* A playout request beside the connect and disconnect requests, in any
\* order, the engine rejecting any call and closing the socket at any moment.
NextLive ==
  \/ \E r \in Slots :
       (\A q \in Slots : req[q].pc = "idle") /\ Arrive(r, RacePaths)
  \/ \E r \in Slots : Step(r, Faults)
  \/ \E r \in Slots : Fallback(r, Faults)
  \/ ConnectRequest \/ ConnectOpened \/ ConnectIdentified
  \/ DisconnectRequest \/ ControlRetire \/ RemoteClose

\* The await of slot r returns: the engine call resolves or rejects, the
\* duration lookup ends.
Returns(r) == InFlight(r) /\ (Step(r, Faults) \/ Fallback(r, Faults))

\* obs.connect settles: the transport opens, the engine identifies the
\* client, or the socket closes.
ConnectSettles ==
  /\ conn.pc \in {"connecting", "open"}
  /\ (ConnectOpened \/ ConnectIdentified \/ RemoteClose)

\* obs.disconnect settles: the socket closes.
DisconnectSettles == ctl.pc = "closing" /\ RemoteClose

\* Every awaited call returns, with a result or an error.
CallsReturn ==
  /\ \A r \in Slots : WF_vars(Returns(r))
  /\ WF_vars(ConnectSettles)
  /\ WF_vars(DisconnectSettles)

SpecLive == InitStaged /\ [][NextLive]_vars /\ CallsReturn

\* ------------------------------------------------------------ properties
IsPlay(rec) == rec.kind \in {"video", "image"}

\* The awaits of /play/video and /show/image whose rejection is not caught
\* before the catch of the route.
ThrowingSteps == {"ens_create", "settings", "restart"}

\* The record is left as it was and nothing is emitted.
RecordKept ==
  /\ currentPlayingMedia' = currentPlayingMedia
  /\ lastEmit' = lastEmit

\* C1: a play or show request in which ensure-source creation, the settings
\* call or the restart throws (as each does when the engine cannot be reached)
\* ends at that step with a failure result; no step of a request that does not
\* answer ok changes currentPlayingMedia or emits currentPlaying.
C1_FailedTransitionKeepsRecord ==
  [][\A r \in Slots :
       (IsPlay(req[r]) /\ InFlight(r) /\ req'[r] # req[r]) =>
         /\ (req[r].pc \in ThrowingSteps /\ ~Reachable) => req'[r].pc = "done"
         /\ (req[r].pc \in ThrowingSteps /\ req'[r].pc = "done") =>
              /\ req'[r].resp = Reply("500", FALSE, "e.message")
              /\ ~req'[r].committed
         /\ ~req'[r].resp.ok => RecordKept]_vars

\* A play or show request failed after calling the engine, with content on air.
C1_Witness ==
  \E r \in Slots :
    /\ IsPlay(req[r]) /\ req[r].pc = "done"
    /\ req[r].resp.status = "500" /\ req[r].called
    /\ currentPlayingMedia.type # NULL

\* C2: a stop request, whatever the state it arrives in, ends with
\* currentPlayingMedia of type null and a currentPlaying emit carrying it.
C2_StopAlwaysClears ==
  [][\A r \in Slots :
       (req'[r].kind = "stop" /\ req'[r].pc = "done" /\ req[r].pc # "done") =>
         /\ currentPlayingMedia' = NoMedia
         /\ lastEmit' = [event |-> "currentPlaying", media |-> NoMedia,
                         connected |-> FALSE]]_vars

\* C3: the response to a stop request is never a failure.
C3_StopNeverFails ==
  \A r \in Slots :
    (req[r].kind = "stop" /\ req[r].pc = "done") => req[r].resp.ok

\* C4: a play or show request whose path does not begin with the configured
\* media root is answered with the invalid-path error and leaves
\* currentPlayingMedia as it was, connected or not, on air or not.
C4_InvalidPathRejected ==
  [][\A r \in Slots :
       (req[r].pc = "idle" /\ IsPlay(req'[r])
          /\ ~StartsWith(req'[r].filePath, CONFIG.MEDIA_DIR)) =>
         /\ req'[r].pc = "done"
         /\ req'[r].resp = Reply("400", FALSE, "invalid path")
         /\ currentPlayingMedia' = currentPlayingMedia]_vars

\* An invalid path was rejected while content was on air.
C4_Witness ==
  \E r \in Slots :
    /\ IsPlay(req[r]) /\ req[r].pc = "done" /\ req[r].resp.status = "400"
    /\ ~StartsWith(req[r].filePath, CONFIG.MEDIA_DIR)
    /\ currentPlayingMedia.type # NULL

\* C5: a play or show request with an invalid path never calls the engine:
\* it is never in flight, has called nothing, and the step that receives it
\* leaves the engine as it was.
C5_InvalidPathCallsNothing ==
  [][\A r \in Slots :
       (IsPlay(req'[r]) /\ ~StartsWith(req'[r].filePath, CONFIG'.MEDIA_DIR)) =>
         /\ req'[r].pc = "done"
         /\ ~req'[r].called
         /\ (req[r].pc = "idle" => UNCHANGED engineVars)]_vars

\* An invalid path was rejected while the engine was connected and reachable.
C5_Witness ==
  \E r \in Slots :
    /\ IsPlay(req[r]) /\ req[r].resp.status = "400" /\ ~req[r].called
    /\ obsConnected /\ Reachable

\* C6: while obsConnected is false, a play or show request with a valid path
\* is answered with the not-connected error, calls nothing and leaves
\* currentPlayingMedia as it was.
C6_DisconnectedRejected ==
  [][\A r \in Slots :
       (req[r].pc = "idle" /\ IsPlay(req'[r]) /\ ~obsConnected
          /\ StartsWith(req'[r].filePath, CONFIG.MEDIA_DIR)) =>
         /\ req'[r].pc = "done"
         /\ req'[r].resp = Reply("503", FALSE, "OBS not connected")
         /\ ~req'[r].called
         /\ UNCHANGED engineVars
         /\ currentPlayingMedia' = currentPlayingMedia]_vars

\* A valid path was refused for want of a connection, content still on air.
C6_Witness ==
  \E r \in Slots :
    /\ IsPlay(req[r]) /\ req[r].pc = "done" /\ req[r].resp.status = "503"
    /\ StartsWith(req[r].filePath, CONFIG.MEDIA_DIR)
    /\ ~obsConnected /\ currentPlayingMedia.type # NULL

\* The request is inside ensureVideoSource / ensureImageSource.
InEnsure(rec) == rec.phase \in {"ensure", "ensure_catch"}

\* C7: with requests run one after another and the engine answering, every
\* ensure*Source call, whether it found the source absent, in no scene or in
\* the target scene, returns without throwing, and when it returns the
\* source exists and has exactly one scene item in the scene it worked in.
C7_EnsureIdempotent ==
  [][\A r \in Slots :
       (InEnsure(req[r]) /\ ~InEnsure(req'[r])) =>
         /\ req'[r].pc # "done"
         /\ req'[r].phase = "hide"
         /\ Src(req[r]) \in inputs'
         /\ Len(items'[req[r].scene][Src(req[r])]) = 1]_vars

\* ensure*Source has just returned in a request for the kind that is already
\* on air: the source had been ensured by an earlier request.
C7_Witness ==
  \E r \in Slots :
    /\ IsPlay(req[r]) /\ req[r].phase = "hide" /\ req[r].called
    /\ currentPlayingMedia.type = req[r].kind
    /\ OwnSource(req[r].kind) \in inputs
    /\ \E s \in Scenes : Len(items[s][OwnSource(req[r].kind)]) = 1

\* The type of the record a request commits.
CommittedType(rec) == IF rec.kind = "stop" THEN NULL ELSE rec.kind

Quiescent == \A q \in Slots : ~InFlight(q)

\* C8: once every overlapping request has finished, currentPlayingMedia is
\* the record of the request whose engine calls completed last.
C8_LastCompletedWins ==
  (Quiescent /\ lastEngineDone \in Slots) =>
    (req[lastEngineDone].committed =>
       currentPlayingMedia.type = CommittedType(req[lastEngineDone]))

\* C9: whenever currentPlayingMedia is a video or an image, the two managed
\* sources are not both enabled in the target scene.
C9_VisibilityExclusive ==
  currentPlayingMedia.type \in {"video", "image"} =>
    ~(Shown(TargetScene, OBS_VIDEO_INPUT) /\ Shown(TargetScene, OBS_IMAGE_INPUT))

\* Every request that has finished committed, and no engine call of it failed.
AllSucceeded ==
  \A q \in Slots : req[q].pc = "done" => (req[q].committed /\ ~req[q].failed)

\* C10: once the overlapping transitions have all completed with every engine
\* call succeeding, the managed source the engine shows in the target scene
\* is the one of currentPlayingMedia.type, and the other one is hidden.
C10_MismatchOnlyTransient ==
  (Quiescent /\ AllSucceeded /\ (\E q \in Slots : req[q].pc = "done")
     /\ currentPlayingMedia.type \in {"video", "image"}) =>
    /\ Shown(TargetScene, OwnSource(currentPlayingMedia.type))
    /\ ~Shown(TargetScene, OtherSource(currentPlayingMedia.type))

\* The observers that are connected.
Joined == {o \in Observers : observers[o].joined}

\* C11: the step in which a play, show or stop request assigns
\* currentPlayingMedia also emits currentPlaying with the record just assigned,
\* to every connected observer; and the record a currentPlaying emit carries
\* is never one that is not assigned yet.
C11_MutationBroadcastAtOnce ==
  [][/\ \A r \in Slots :
          (~req[r].committed /\ req'[r].committed) =>
            /\ lastEmit' = [event |-> "currentPlaying",
                            media |-> currentPlayingMedia',
                            connected |-> FALSE]
            /\ \A o \in Joined : observers'[o].playing = <<currentPlayingMedia'>>
     /\ currentPlayingMedia' # currentPlayingMedia =>
          \E r \in Slots : ~req[r].committed /\ req'[r].committed
     /\ (lastEmit' # lastEmit /\ lastEmit'.event = "currentPlaying") =>
          lastEmit'.media = currentPlayingMedia']_vars

\* A video was committed and the connected observer holds that record.
C11_Witness ==
  \E r \in Slots, o \in Joined :
    /\ req[r].kind = "video" /\ req[r].committed
    /\ lastEmit.event = "currentPlaying"
    /\ observers[o].playing = <<currentPlayingMedia>>
    /\ currentPlayingMedia.type = "video"

\* C12: an observer that connects has received, when the connection handler
\* returns, the status and the record of that moment and nothing else; right
\* after a video request succeeded that record is the video with its path.
C12_JoinReplaysCurrent ==
  [][\A o \in Observers :
       (~observers[o].joined /\ observers'[o].joined) =>
         /\ observers[o] = NoObserver
         /\ observers'[o].status = <<obsConnected>>
         /\ observers'[o].playing = <<currentPlayingMedia>>
         /\ \A r \in Slots :
              (req[r].kind = "video" /\ req[r].committed) =>
                /\ observers'[o].playing[1].type = "video"
                /\ observers'[o].playing[1].filePath = req[r].filePath]_vars

\* An observer joined after a video was put on air and a status change was
\* broadcast, and holds the video.
C12_Witness ==
  \E o \in Joined :
    /\ lastEmit.event = "obsStatus"
    /\ currentPlayingMedia.type = "video"
    /\ observers[o].playing = <<currentPlayingMedia>>
    /\ observers[o].status = <<obsConnected>>

\* C13: what a connected observer received last as obsStatus is obsConnected,
\* and what it received last as currentPlaying is currentPlayingMedia.
C13_ObserversConsistent ==
  \A o \in Joined :
    /\ observers[o].status = <<obsConnected>>
    /\ observers[o].playing = <<currentPlayingMedia>>

\* The observer watched a settings update drop the connection with an image
\* on air.
C13_Witness ==
  \E o \in Joined :
    /\ ctl.kind = "settings" /\ ctl.pc = "done" /\ ctl.called
    /\ observers[o].status = <<FALSE>>
    /\ currentPlayingMedia.type = "image"
    /\ observers[o].playing = <<currentPlayingMedia>>

\* C14: every step that changes obsConnected, whatever causes it, emits
\* obsStatus with the new value, and every connected observer receives it.
C14_StatusChangeBroadcast ==
  [][obsConnected' # obsConnected =>
       /\ lastEmit' = [event |-> "obsStatus", media |-> NoMedia,
                       connected |-> obsConnected']
       /\ \A o \in Joined : observers'[o].status = <<obsConnected'>>]_vars

\* A settings update closed the connection and the observers were told.
C14_Witness ==
  /\ ctl.kind = "settings" /\ ctl.pc = "done" /\ ctl.called /\ ctl.changed
  /\ ~obsConnected
  /\ lastEmit.event = "obsStatus" /\ ~lastEmit.connected
  /\ Joined = Observers
  /\ \A o \in Joined : observers[o].status = <<FALSE>>

\* C15: a connection attempt starts only in the step that serves a connect
\* request received while disconnected, and obsConnected becomes true only
\* while such a request awaits obs.connect; a close or a disconnect starts
\* no attempt.
C15_ConnectOnlyOnRequest ==
  [][/\ (sock' = "connecting" /\ sock # "connecting") =>
          /\ sock = "closed" /\ ~obsConnected
          /\ conn.pc = "idle" /\ conn'.pc = "connecting" /\ conn'.called
          /\ obsConnected' = obsConnected
     /\ (~obsConnected /\ obsConnected') =>
          conn.pc = "connecting" /\ conn.called]_vars

\* After a disconnect request was served nothing reconnects: the socket is
\* closed, the status is disconnected and no connect request is running.
C15_Witness ==
  /\ ctl.kind = "disconnect" /\ ctl.pc = "done" /\ ctl.called
  /\ conn = NoConn
  /\ sock = "closed" /\ ~obsConnected
  /\ lastEmit.event = "obsStatus" /\ ~lastEmit.connected

\* C16: when a settings request that replaced the engine URL or the password
\* while connected completes, on either route, obsConnected is false.
C16_SettingsDropConnection ==
  [][(ctl.pc # "done" /\ ctl'.pc = "done" /\ ctl'.changed) =>
       ~obsConnected']_vars

\* C17: a connect request while connected answers ok without calling
\* obs.connect and leaves the status and the socket as they are; a disconnect
\* request while disconnected answers ok without calling obs.disconnect and
\* leaves them as they are; a disconnect request while connected ends with ok
\* and obsConnected false.
C17_ConnectDisconnectIdempotent ==
  [][/\ (conn.pc = "idle" /\ conn'.pc # "idle" /\ obsConnected) =>
          /\ conn'.pc = "done" /\ conn'.resp.ok /\ ~conn'.called
          /\ obsConnected' /\ sock' = sock
     /\ (ctl.pc = "idle" /\ ctl'.kind = "disconnect" /\ ~obsConnected) =>
          /\ ctl'.pc = "done" /\ ctl'.resp.ok /\ ~ctl'.called
          /\ ~obsConnected' /\ sock' = sock
     /\ (ctl.pc = "idle" /\ ctl'.kind = "disconnect" /\ obsConnected) =>
          ctl'.pc = "closing" /\ ctl'.called
     /\ (ctl.kind = "disconnect" /\ ctl.pc = "closing" /\ ctl' # ctl) =>
          ctl'.pc = "done" /\ ctl'.resp.ok /\ ~obsConnected']_vars

\* Both repeated requests were answered: connect while connected, and
\* disconnect while disconnected, neither calling the engine.
C17_Witness ==
  /\ conn.pc = "done" /\ ~conn.called /\ conn.resp.ok /\ obsConnected
  /\ ctl.kind = "disconnect" /\ ctl.pc = "done" /\ ~ctl.called /\ ctl.resp.ok

\* C18: every run of the progress task pushes exactly one sample, and when
\* the record is not a video or the engine is not connected that sample is
\* the synthetic one.
C18_EveryTickPushes ==
  poll.pc = "done" =>
    /\ poll.pushed = 1
    /\ ~poll.live => (poll.origin = "synthetic" /\ progress = SyntheticSample)

\* C19: once a stop has reset the record, every sample pushed while the
\* record is still of type null is the synthetic one, the sample of a run
\* that was awaiting the engine when the stop ran included.
C19_SyntheticAfterStop ==
  [][(poll'.pushed > poll.pushed /\ currentPlayingMedia.type = NULL) =>
       progress' = SyntheticSample]_vars

\* C20: when the media-status query of a run fails, as it does when the engine
\* cannot be reached, the run pushes the synthetic sample and ends; obsConnected
\* and currentPlayingMedia stay as they are and the next tick can run.
C20_QueryFailureDegrades ==
  [][/\ (poll.pc = "query" /\ poll' # poll) =>
          /\ poll'.pc = "done" /\ poll'.pushed = 1
          /\ ~Reachable => poll'.origin = "synthetic"
          /\ poll'.origin = "synthetic" =>
               /\ progress' = SyntheticSample
               /\ obsConnected' = obsConnected
               /\ currentPlayingMedia' = currentPlayingMedia
     /\ (poll.pc = "done" /\ poll' # poll) => poll' = NoPoll]_vars

\* A run for the video on air failed and pushed the synthetic sample.
C20_Witness ==
  /\ poll.pc = "done" /\ poll.live /\ poll.origin = "synthetic"
  /\ progress = SyntheticSample
  /\ currentPlayingMedia.type = "video"

\* C21: the step in which a play request for path p commits leaves
\* currentPlayingMedia with type video, filePath p, filename the last segment
\* of p (no separator in it, and p ends with it after a separator) and
\* duration either the probed seconds or null; the step in which a show
\* request commits leaves type image, filePath p, that filename and duration
\* null; both answer ok, whatever the record was before.
C21_CommitShapesRecord ==
  [][\A r \in Slots :
       (IsPlay(req[r]) /\ ~req[r].committed /\ req'[r].committed) =>
         LET p == req[r].filePath
             m == currentPlayingMedia'
             n == Len(p) - Len(m.filename)
         IN /\ req'[r].resp = Reply("200", TRUE, NULL)
            /\ m.type = req[r].kind
            /\ m.filePath = p
            /\ m.startTime = NOW
            /\ m.filename # <<>> /\ n >= 1
            /\ SubSeq(p, n + 1, Len(p)) = m.filename
            /\ p[n] = "/"
            /\ \A i \in 1..Len(m.filename) : m.filename[i] # "/"
            /\ req[r].kind = "video" =>
                 /\ m.duration \in {NullNumber, <<ProbedSeconds(p)>>}
                 /\ m.durationFormatted = FormatDuration(m.duration)
            /\ req[r].kind = "image" => m.duration = NullNumber]_vars

\* A play request for /m/a committed with a null duration, although an engine
\* call of it had been rejected on the way.
C21_Witness ==
  \E r \in Slots :
    /\ req[r].pc = "done" /\ req[r].committed /\ req[r].kind = "video"
    /\ currentPlayingMedia.type = "video"
    /\ currentPlayingMedia.duration = NullNumber
    /\ currentPlayingMedia.filename = <<"a">>
    /\ currentPlayingMedia.filePath = <<"/", "m", "/", "a">>
    /\ req[r].failed

\* The request is inside hideSource / showSource.
InVisibility(rec) == rec.phase \in {"hide", "hide2", "show"}

\* C22: within one play or show request, showSource of the own source is
\* entered only in the step in which hideSource of the other source returns,
\* hideSource is entered only when ensure*Source returns and never again
\* after showSource, and SetSceneItemEnabled is sent for the other source
\* with false during hideSource and for the own source with true during
\* showSource.
C22_HideCompletesBeforeShow ==
  [][\A r \in Slots :
       (IsPlay(req[r]) /\ InFlight(r) /\ req'[r] # req[r]) =>
         /\ (req'[r].phase = "show" /\ req[r].phase # "show") =>
              /\ req[r].phase = "hide"
              /\ req[r].pc \in {"vis_list", "vis_set", "gcs_list"}
         /\ (req'[r].phase = "hide" /\ req[r].phase # "hide") => InEnsure(req[r])
         /\ req[r].phase = "show" => req'[r].phase \notin {"hide", "ensure"}
         /\ (req[r].pc = "vis_set" /\ req[r].phase = "hide") =>
              items' \in {items, WithEnabled(req[r].scene,
                                              OtherSource(req[r].kind), FALSE)}
         /\ (req[r].pc = "vis_set" /\ req[r].phase = "show") =>
              items' \in {items, WithEnabled(req[r].scene,
                                              OwnSource(req[r].kind), TRUE)}
         /\ (InVisibility(req[r]) /\ req[r].pc # "vis_set") => items' = items]_vars

\* showSource is about to enable the own source: hideSource has disabled the
\* source of the kind that was on air.
C22_Witness ==
  \E r \in Slots :
    /\ IsPlay(req[r]) /\ req[r].phase = "show" /\ req[r].pc = "vis_set"
    /\ currentPlayingMedia.type \in {"video", "image"}
    /\ currentPlayingMedia.type # req[r].kind
    /\ ExistsInScene(req[r].scene, OtherSource(req[r].kind))
    /\ ~Shown(req[r].scene, OtherSource(req[r].kind))
    /\ ~req[r].failed

\* The request awaits a call of a best-effort step: the scene switch,
\* hideSource, showSource, STOP before RESTART, or fitToScreen.
BestEffort(rec) ==
  \/ rec.pc \in {"switch", "vis_list", "vis_set", "media_stop",
                 "fit_video", "fit_list", "fit_get", "fit_set"}
  \/ rec.pc \in {"gcs_prog", "gcs_list"} /\ ~InEnsure(rec)

\* C23: no step of a best-effort call, rejected or not, ends a play or show
\* request with a failure; a request ends with a failure only in a call of
\* the catch block of ensure*Source, in SetInputSettings or in RESTART; every
\* other request that ends answers ok and has replaced currentPlayingMedia
\* by a record of its kind and path.
C23_BestEffortNeverAborts ==
  [][\A r \in Slots :
       (IsPlay(req[r]) /\ InFlight(r) /\ req'[r] # req[r]) =>
         /\ BestEffort(req[r]) => (req'[r].pc = "done" => req'[r].resp.ok)
         /\ (req'[r].pc = "done" /\ ~req'[r].resp.ok) =>
              \/ req[r].phase = "ensure_catch"
              \/ req[r].pc \in {"settings", "restart"}
         /\ (req'[r].pc = "done" /\ req'[r].resp.ok) =>
              /\ req'[r].committed
              /\ currentPlayingMedia'.type = req[r].kind
              /\ currentPlayingMedia'.filePath = req[r].filePath]_vars

\* A show request answered ok and put its image on air although a call of it
\* was rejected: the video source it should have hidden is still enabled.
C23_Witness ==
  \E r \in Slots :
    /\ req[r].kind = "image" /\ req[r].pc = "done" /\ req[r].resp.ok
    /\ req[r].failed
    /\ currentPlayingMedia.type = "image"
    /\ \E s \in Scenes : Shown(s, OBS_VIDEO_INPUT) /\ Shown(s, OBS_IMAGE_INPUT)

\* C24: ensure*Source raises only when its GetInputSettings found no source:
\* once GetInputSettings has answered, no rejection of a later call of the
\* helper ends the request with a failure.
C24_ExistingSourceNeverRaises ==
  [][\A r \in Slots :
       (IsPlay(req[r]) /\ InEnsure(req[r]) /\ req'[r].pc = "done") =>
         ~req[r].probed]_vars

\* C25: while GetInputSettings of the running ensure*Source has answered (the
\* source exists), the helper is never at its CreateInput call.
C25_ExistingSourceNeverCreated ==
  \A r \in Slots :
    (IsPlay(req[r]) /\ req[r].probed) =>
      ~(req[r].phase = "ensure_catch" /\ req[r].pc = "ens_create")

\* The request awaits a call made inside hideSource / showSource.
AtVisibilityCall(rec) ==
  /\ InVisibility(rec)
  /\ rec.pc \in {"gcs_prog", "gcs_list", "vis_list", "vis_set"}

\* C26 as stated: after an engine call inside hideSource / showSource was
\* rejected (here GetCurrentProgramScene, which getCurrentScene catches), the
\* helper issues no SetSceneItemEnabled.
C26_FailureIssuesNoSetEnabled ==
  \A r \in Slots :
    (AtVisibilityCall(req[r]) /\ req[r].fellBack) => req[r].pc # "vis_set"

\* C26 amended: no step of hideSource / showSource ends the request with a
\* failure.  SetSceneItemEnabled is issued only after GetSceneItemList answered
\* with an item of the source, and the enabled flags change only when that
\* call is answered; a rejected or unreachable GetSceneItemList, GetSceneList
\* or SetSceneItemEnabled, and a scene without an item of the source, make the
\* helper return with the flags as they were.  A rejected
\* GetCurrentProgramScene alone does not: the helper goes on in the scene that
\* getCurrentScene fell back to.
C26_VisibilityNeverRaises ==
  [][\A r \in Slots :
       (AtVisibilityCall(req[r]) /\ req'[r] # req[r]) =>
         LET rec == req[r]
             rejected == ~Reachable \/ (~rec.failed /\ req'[r].failed)
             returned == \/ req'[r].phase # rec.phase
                         \/ req'[r].pc \in {"media_stop", "settings"}
         IN /\ req'[r].pc = "done" => req'[r].resp.ok
            /\ req'[r].pc = "vis_set" =>
                 /\ rec.pc = "vis_list" /\ Reachable
                 /\ ExistsInScene(rec.scene, Src(rec))
            /\ items' # items =>
                 /\ rec.pc = "vis_set" /\ Reachable
                 /\ items' = WithEnabled(rec.scene, Src(rec),
                                         EnabledFlag(rec.phase))
            /\ (rec.pc = "vis_list" /\ ~ExistsInScene(rec.scene, Src(rec))) =>
                 returned /\ items' = items
            /\ (rec.pc \in {"vis_list", "vis_set", "gcs_list"} /\ rejected) =>
                 returned /\ items' = items
            /\ (rec.pc = "gcs_prog" /\ rejected) =>
                 /\ ~returned /\ req'[r].fellBack
                 /\ req'[r].pc \in {"gcs_list", "vis_list"}
            /\ (rec.pc = "gcs_list" /\ ~returned) =>
                 /\ req'[r].pc = "vis_list"
                 /\ req'[r].scene = SceneList[1]]_vars

\* A stop request answered ok although a call of it was rejected: the video
\* source it should have hidden is still enabled.
C26_Witness ==
  \E r \in Slots :
    /\ req[r].kind = "stop" /\ req[r].pc = "done" /\ req[r].resp.ok
    /\ req[r].failed
    /\ \E s \in Scenes : Shown(s, OBS_VIDEO_INPUT)

\* C27: in follow mode every helper of a request (ensure*Source and its catch
\* block, hideSource, showSource, fitToScreen) starts with no scene and asks
\* the engine: the step that enters it leads to GetCurrentProgramScene with
\* the scene unset, and the scene the helper works in is the program scene
\* the engine has when that call answers.
C27_FollowModeResolvesAfresh ==
  [][\A r \in Slots :
       (InFlight(r) /\ req'[r] # req[r]
          /\ CONFIG.OBS_TARGET_SCENE = CURRENT_SCENE) =>
         /\ (req'[r].phase # req[r].phase /\ req'[r].pc # "done") =>
              /\ req'[r].pc = "gcs_prog"
              /\ req'[r].phase \in {"ensure_catch", "hide", "hide2", "show", "fit"}
         /\ (req[r].pc = "ens_get" /\ req'[r].pc # "done") =>
              req'[r].pc = "gcs_prog"
         /\ req'[r].pc = "gcs_prog" => req'[r].scene = NULL
         /\ req[r].pc = "gcs_prog" => req'[r].scene = programScene
         /\ (req[r].pc # "gcs_prog" /\ req'[r].scene # NULL) =>
              /\ req'[r].scene = req[r].scene
              /\ req'[r].phase = req[r].phase]_vars

\* In follow mode showSource works in the scene the operator has switched to,
\* where the source is in no item: ensure*Source had attached it to the scene
\* that was on air before.
C27_Witness ==
  \E r \in Slots :
    /\ CONFIG.OBS_TARGET_SCENE = CURRENT_SCENE
    /\ IsPlay(req[r]) /\ req[r].phase = "show" /\ req[r].pc = "vis_list"
    /\ req[r].scene = "Live" /\ programScene = "Live"
    /\ ExistsInScene("Scene", OwnSource(req[r].kind))
    /\ ~ExistsInScene("Live", OwnSource(req[r].kind))

\* C28: a play or show request that passed the two guards awaits
\* SetCurrentProgramScene for CONFIG.OBS_TARGET_SCENE first, and enters
\* ensure*Source when that call returns, if the target is a scene name; with
\* the target CURRENT_SCENE it enters ensure*Source at once.  The call is
\* issued nowhere else in the request, and no other step of a play or show
\* request changes the program scene: in follow mode none does.
C28_SwitchOnlyToFixedTarget ==
  [][\A r \in Slots :
       LET target == CONFIG.OBS_TARGET_SCENE
       IN /\ (req[r].pc = "idle" /\ IsPlay(req'[r]) /\ req'[r].pc # "done") =>
               IF target # CURRENT_SCENE
                 THEN /\ req'[r].pc = "switch" /\ req'[r].scene = target
                      /\ ~req'[r].called
                 ELSE req'[r].pc = "ens_get" /\ req'[r].phase = "ensure"
          /\ req'[r].pc = "switch" => req[r].pc \in {"idle", "switch"}
          /\ (req[r].pc = "switch" /\ req'[r] # req[r]) =>
               /\ target # CURRENT_SCENE
               /\ req'[r].pc = "ens_get" /\ req'[r].phase = "ensure"
               /\ programScene' \in {programScene, target}
               /\ (Reachable /\ ~req'[r].failed) => programScene' = target
          /\ (IsPlay(req[r]) /\ InFlight(r) /\ req'[r] # req[r]
                /\ req[r].pc # "switch") => programScene' = programScene
          /\ (IsPlay(req'[r]) /\ req'[r] # req[r] /\ target = CURRENT_SCENE) =>
               programScene' = programScene]_vars

\* The switch to the fixed target "Live" was answered and ensure*Source is
\* entered with that scene on air.
C28_Witness ==
  \E r \in Slots :
    /\ IsPlay(req[r]) /\ req[r].pc = "ens_get" /\ req[r].called
    /\ ~req[r].failed
    /\ CONFIG.OBS_TARGET_SCENE = "Live" /\ programScene = "Live"

\* C29: a play or show request is answered with the invalid-path error if and
\* only if its path does not begin, character by character, with the media
\* root that CONFIG holds when the request arrives; a path that begins with
\* it passes to the connection guard, whatever follows the root in it.
C29_PathAcceptedIffPrefix ==
  [][\A r \in Slots :
       (req[r].pc = "idle" /\ IsPlay(req'[r])) =>
         LET path == req'[r].filePath
             root == CONFIG.MEDIA_DIR
             begins == /\ Len(root) <= Len(path)
                       /\ \A i \in 1..Len(root) : path[i] = root[i]
         IN /\ (req'[r].resp.status = "400") = ~begins
            /\ begins =>
                 IF obsConnected THEN InFlight(r)'
                 ELSE req'[r].resp.status = "503"]_vars

\* After the media root was moved to /v, a request for /v/b passed the path
\* check.
C29_Witness ==
  \E r \in Slots :
    /\ IsPlay(req[r]) /\ req[r].filePath = <<"/", "v", "/", "b">>
    /\ InFlight(r)
    /\ CONFIG.MEDIA_DIR = <<"/", "v">>

\* C30: currentPlayingMedia changes only in the step in which a play, show or
\* stop request commits and answers ok.  No other step changes it: not a
\* connect or disconnect request, the socket opening or closing, a settings
\* update, POST /obs/scene, a media control or seek request, a progress tick
\* or its answer, an observer joining, leaving or asking for the status.
C30_RecordChangesOnlyAtCommit ==
  [][currentPlayingMedia' # currentPlayingMedia =>
       \E r \in Slots :
         /\ req[r].kind \in {"video", "image", "stop"}
         /\ InFlight(r) /\ ~req[r].committed
         /\ req'[r].committed /\ req'[r].pc = "done" /\ req'[r].resp.ok
         /\ UNCHANGED <<obsConnected, CONFIG, sock, conn, ctl, poll, progress>>]_vars

\* A video is still on the record after a progress sample was pushed, an
\* observer joined and the switcher was disconnected on request.
C30_Witness ==
  /\ currentPlayingMedia.type = "video"
  /\ ~obsConnected /\ sock = "closed"
  /\ ctl.kind = "disconnect" /\ ctl.pc = "done"
  /\ progress # NoSample
  /\ observers[1].joined

C32_StopTwiceIdempotent ==
  \A r, q \in Slots :
    (r # q /\ req[r].kind = "stop" /\ req[r].pc = "done"
           /\ req[q].kind = "stop" /\ req[q].pc = "done") =>
      /\ req[r].resp.ok /\ req[q].resp.ok
      /\ currentPlayingMedia = NoMedia

\* The two events of a replay, in the order they are sent.
Replay == <<"obsStatus", "currentPlaying">>

\* C33: the step that answers a requestStatus of observer o delivers to o the
\* obsStatus event and then the currentPlaying event, with obsConnected and
\* currentPlayingMedia as they are; what o holds then is what a client
\* joining in that state holds; the other observers receive nothing and no
\* other variable changes.
C33_RefreshEqualsJoin ==
  [][\A o \in Observers :
       LET joins == ~observers[o].joined /\ observers'[o].joined
           refreshes == /\ observers[o].joined /\ observers'[o].refreshed
                        /\ observers'[o] # observers[o]
           replayed == [joined |-> TRUE, status |-> <<obsConnected>>,
                        playing |-> <<currentPlayingMedia>>,
                        inbox |-> Replay, refreshed |-> refreshes]
       IN (joins \/ refreshes) =>
            /\ observers'[o] = replayed
            /\ \A p \in Observers \ {o} : observers'[p] = observers[p]
            /\ UNCHANGED <<obsConnected, currentPlayingMedia, CONFIG, req,
                           lastEmit, sock, engineVars, lastEngineDone,
                           ctlVars>>]_vars

\* Observer 1 was answered a requestStatus with a video on the record and the
\* switcher connected, after the broadcast that observer 2 received last.
C33_Witness ==
  /\ observers[1].joined /\ observers[1].refreshed
  /\ observers[1].inbox = Replay
  /\ observers[1].playing = <<currentPlayingMedia>>
  /\ currentPlayingMedia.type = "video" /\ obsConnected
  /\ observers[2].joined /\ observers[2].inbox = <<"currentPlaying">>

\* C34: with a fixed target scene, requests one at a time and the engine
\* answering every call, a finished request that committed leaves the engine
\* as the record says: a video on the record, the video source shows in the
\* target scene and the image source does not; an image, the reverse; the
\* record cleared by /stop/all, neither shows.
C34_EngineMatchesRecord ==
  \A r \in Slots :
    (/\ req[r].pc = "done" /\ req[r].committed
     /\ CONFIG.OBS_TARGET_SCENE # CURRENT_SCENE) =>
      /\ currentPlayingMedia.type = CommittedType(req[r])
      /\ Shown(CONFIG.OBS_TARGET_SCENE, OBS_VIDEO_INPUT)
           = (currentPlayingMedia.type = "video")
      /\ Shown(CONFIG.OBS_TARGET_SCENE, OBS_IMAGE_INPUT)
           = (currentPlayingMedia.type = "image")

\* An image request finished in the scene "Live", where the video source
\* had been showing and the image source had to be created.
C34_Witness ==
  \E r \in Slots :
    /\ req[r].pc = "done" /\ req[r].committed /\ req[r].kind = "image"
    /\ CONFIG.OBS_TARGET_SCENE = "Live"
    /\ currentPlayingMedia.type = "image"
    /\ Len(items["Live"][OBS_VIDEO_INPUT]) = 1 /\ req[r].failed
    /\ ~Shown("Live", OBS_VIDEO_INPUT) /\ Shown("Live", OBS_IMAGE_INPUT)

\* C35: a /play/video or /show/image request replaces currentPlayingMedia
\* only in a step that finds obsConnected true.
C35_CommitOnlyWhileConnected ==
  [][\A r \in Slots :
       (IsPlay(req[r]) /\ ~req[r].committed /\ req'[r].committed)
         => obsConnected]_vars

\* C36: when a connection attempt fails (POST /obs/connect is about to
\* answer 503), obsConnected is false and the last obsStatus broadcast, if it
\* was made during the attempt, did not say connected.
C36_FailedAttemptNeverConnected ==
  [][(conn.pc \in {"connecting", "open"} /\ conn'.pc = "done"
        /\ ~conn'.resp.ok)
       => /\ ~obsConnected
          /\ ~(lastEmit.event = "obsStatus" /\ lastEmit.connected)]_vars

\* C37: when ensure*Source returns in a request while another request for
\* the same kind is in flight, it returns without throwing and the source
\* exists with exactly one scene item in the scene it worked in.
C37_ConcurrentEnsureOnce ==
  [][\A r \in Slots :
       (/\ IsPlay(req[r]) /\ InEnsure(req[r]) /\ ~InEnsure(req'[r])
        /\ \E q \in Slots \ {r} :
              InFlight(q) /\ req[q].kind = req[r].kind) =>
         /\ req'[r].pc # "done"
         /\ Src(req[r]) \in inputs'
         /\ Len(items'[req[r].scene][Src(req[r])]) = 1]_vars

\* C38: a POST /obs/scene request that answers with a failure has left
\* CONFIG.OBS_TARGET_SCENE as it found it.
C38_FailedSceneKeepsTarget ==
  (ctl.kind = "scene" /\ ctl.pc = "done" /\ ~ctl.resp.ok) => ~ctl.changed

\* C39: if every awaited call returns, no /play/video, /show/image or
\* /stop/all request, no connection attempt and no disconnect stays
\* unanswered for ever (each of them is again and again not in flight, and
\* it leaves flight only by its answer), and an answer once sent is never
\* followed by another one for the same request.
C39_EveryRequestAnswered ==
  /\ \A r \in Slots : []<>(~InFlight(r))
  /\ []<>(conn.pc \notin {"connecting", "open"})
  /\ []<>(ctl.pc # "closing")
  /\ [][/\ \A r \in Slots :
             /\ InFlight(r) => (InFlight(r)' \/ req'[r].pc = "done")
             /\ req[r].pc = "done" => req'[r] \in {req[r], IdleReq}
        /\ conn.pc \in {"connecting", "open"} => conn'.pc # "idle"
        /\ conn.pc = "done" => conn' \in {conn, NoConn}
        /\ ctl.pc = "closing" => ctl'.pc # "idle"
        /\ ctl.pc = "done" => ctl' \in {ctl, NoCtl}]_vars

\* A request that passed the connected check while a connection attempt was
\* under way was answered 500 after a rejected call, and the attempt 503.
C39_Witness ==
  /\ req[1].pc = "done" /\ req[1].resp.status = "500" /\ req[1].failed
  /\ conn.pc = "done" /\ ~conn.resp.ok

====
